---- MODULE Spec2Model ----
(***************************************************************************)
(* A model of the cache / deduplication layer of the stock scanner:        *)
(*   utils/cache.py                 CacheManager (Redis with a fallback)   *)
(*   services/signal_deduplicator.py SignalDeduplicator                    *)
(*                                                                         *)
(* Strings are sequences of tokens (a token is a string holding one        *)
(* character, or a literal that the code never splits).  A Python value is *)
(* a record [t |-> its type name, v |-> its content], the content being a  *)
(* sequence of atoms, an atom being a sequence of tokens.                  *)
(***************************************************************************)
EXTENDS Integers, Sequences, FiniteSets, TLC

\* ------------------------------------------------------------------ bounds
\* The clock of the store specifications runs from 0 to MaxTime hours.
MaxTime == 2
\* The largest ttl_hours a caller of the store specifications passes.
MaxTtl == 2
\* The clock of the deduplication specification advances this many times.
MaxDedupTicks == 2

VARIABLES
    now,        \* the wall clock, in hours
    backendUp,  \* the remote backend answers commands
    redis,      \* the remote backend: full key -> [value, expire_at]
    stores,     \* the CacheManager objects: id -> the object's fields
    last,       \* the most recent event: a call and its outcome
    deadline,   \* history: <<store, key>> -> now + ttl of the last set that returned
    wpc,        \* each worker's position in the deduplication protocol
    wsig,       \* the signal each worker is handling
    accepted,   \* history: <<worker, symbol, detected_date>> accepted while quiet
    marked,     \* history: <<symbol, detected_date>> -> time mark_processed returned
    quiet,      \* history: only workers have taken steps (no clock, clear, outage)
    arg,        \* the inputs of the function under study (indicators, scoring)
    res,        \* the call made with arg and what it returned or raised
    scan        \* the POST /scan request in progress: position, results, calls

dedupVars == <<wpc, wsig, accepted, marked, quiet>>
extVars == <<arg, res, scan>>
vars == <<now, backendUp, redis, stores, last, deadline,
          wpc, wsig, accepted, marked, quiet, arg, res, scan>>

\* ----------------------------------------------------------- python values
PyNone == [t |-> "NoneType", v |-> <<>>]
PyBool(b) == [t |-> "bool", v |-> << <<IF b THEN "True" ELSE "False">> >>]
PyInt(digits) == [t |-> "int", v |-> << <<digits>> >>]
PyList(items) == [t |-> "list", v |-> items]
PyTuple(items) == [t |-> "tuple", v |-> items]
\* a dict with string keys: v is key1, value1, key2, value2, ...
PyDict(flat) == [t |-> "dict", v |-> flat]
\* an object json cannot encode (a datetime, a set, ...)
PyDatetime(iso) == [t |-> "datetime", v |-> << <<iso>> >>]

\* bool(value)
Truthy(value) ==
    CASE value.t = "NoneType" -> FALSE
      [] value.t = "bool" -> value.v[1] = <<"True">>
      [] value.t = "int" -> value.v[1] # <<"0">>
      [] value.t = "str" -> value.v[1] # <<>>
      [] value.t \in {"list", "tuple", "dict"} -> value.v # <<>>
      [] OTHER -> TRUE

\* dict.get(key): the value atom stored under key, or <<>> for None
PyDictGet(value, key) ==
    LET hits == {i \in 1..(Len(value.v) \div 2) : value.v[2 * i - 1] = <<key>>}
    IN  IF value.t = "dict" /\ hits # {}
        THEN value.v[2 * (CHOOSE i \in hits : TRUE)]
        ELSE <<>>

\* ------------------------------------------------------------------- json
JsonEncodable == {"NoneType", "bool", "int", "str", "list", "tuple", "dict"}

JsonKind(t) ==
    CASE t = "NoneType" -> "null"
      [] t = "bool" -> "boolean"
      [] t = "int" -> "number"
      [] t = "str" -> "string"
      [] t \in {"list", "tuple"} -> "array"
      [] OTHER -> "object"

PyType(j) ==
    CASE j = "null" -> "NoneType"
      [] j = "boolean" -> "bool"
      [] j = "number" -> "int"
      [] j = "string" -> "str"
      [] j = "array" -> "list"
      [] OTHER -> "dict"

\* json.dumps(value): a JSON text, or a TypeError
json_dumps(value) ==
    IF value.t \in JsonEncodable
    THEN [ok |-> TRUE, text |-> [j |-> JsonKind(value.t), v |-> value.v]]
    ELSE [ok |-> FALSE, text |-> [j |-> "null", v |-> <<>>]]

\* json.loads(text) of a text json.dumps wrote
json_loads(text) == [t |-> PyType(text.j), v |-> text.v]

\* ------------------------------------------------------------ dictionaries
EmptyDict == <<>>

DictSet(d, k, x) == [y \in (DOMAIN d) \cup {k} |-> IF y = k THEN x ELSE d[y]]

DictDel(d, ks) == [y \in (DOMAIN d) \ ks |-> d[y]]

\* ------------------------------------------------------------- glob match
\* fnmatch.fnmatch(name, pat) and Redis KEYS pat, for patterns of literal
\* characters, "?" and "*"
RECURSIVE GlobMatch(_, _)
GlobMatch(pat, name) ==
    IF pat = <<>> THEN name = <<>>
    ELSE IF Head(pat) = "*"
         THEN \/ GlobMatch(Tail(pat), name)
              \/ name # <<>> /\ GlobMatch(pat, Tail(name))
         ELSE /\ name # <<>>
              /\ Head(pat) = "?" \/ Head(pat) = Head(name)
              /\ GlobMatch(Tail(pat), Tail(name))

\* ----------------------------------------------------------- CacheManager
\* CacheManager.__init__ followed by _connect: the client is kept only when
\* the credentials are configured and the ping at construction is answered.
NewStore(namespace, enable_fallback, credentials, reachable) ==
    [namespace |-> namespace,
     enable_fallback |-> enable_fallback,
     redis_client |-> credentials /\ reachable,
     fallback_cache |-> [isNone |-> ~enable_fallback, d |-> EmptyDict]]

\* _make_key: f"{namespace}:{key}"
make_key(s, key) == stores[s].namespace \o <<":">> \o key

Return(value) == [status |-> "ok", ret |-> value, code |-> "-"]
Raise(code) == [status |-> "error", ret |-> PyNone, code |-> code]

\* CacheManager.get
GetOutcome(s, key) ==
    LET st == stores[s]
        full_key == make_key(s, key)
    IN  IF st.redis_client
        THEN IF ~backendUp THEN Raise("CACHE_GET_ERROR")
             ELSE IF full_key \in DOMAIN redis
                  THEN Return(json_loads(redis[full_key].value))
                  ELSE Return(PyNone)
        ELSE IF ~st.fallback_cache.isNone
             THEN IF full_key \in DOMAIN st.fallback_cache.d
                  THEN Return(st.fallback_cache.d[full_key])
                  ELSE Return(PyNone)
             ELSE Return(PyNone)

Effect(outcome, newRedis, newStores) ==
    [outcome |-> outcome, redis |-> newRedis, stores |-> newStores]

WithFallback(s, d) ==
    [stores EXCEPT ![s].fallback_cache.d = d]

\* CacheManager.set with json.dumps moved into the Redis branch: the in-memory
\* branch stores the value without encoding it.
SetEffectDumpsInRedisBranch(s, key, value, ttl_hours) ==
    LET st == stores[s]
        full_key == make_key(s, key)
        json_value == json_dumps(value)
    IN  IF st.redis_client
        THEN IF ~json_value.ok \/ ~backendUp \/ ttl_hours <= 0
             THEN Effect(Raise("CACHE_SET_ERROR"), redis, stores)
             ELSE Effect(Return(PyBool(TRUE)),
                         DictSet(redis, full_key,
                                 [value |-> json_value.text,
                                  expire_at |-> now + ttl_hours]),
                         stores)
        ELSE IF ~st.fallback_cache.isNone
             THEN Effect(Return(PyBool(TRUE)), redis,
                         WithFallback(s, DictSet(st.fallback_cache.d, full_key, value)))
             ELSE Effect(Return(PyBool(TRUE)), redis, stores)

\* CacheManager.set
SetEffect(s, key, value, ttl_hours) ==
    LET st == stores[s]
        full_key == make_key(s, key)
        json_value == json_dumps(value)
    IN  IF ~json_value.ok THEN Effect(Raise("CACHE_SET_ERROR"), redis, stores)
        ELSE IF st.redis_client
        THEN IF ~backendUp \/ ttl_hours <= 0
             THEN Effect(Raise("CACHE_SET_ERROR"), redis, stores)
             ELSE Effect(Return(PyBool(TRUE)),
                         DictSet(redis, full_key,
                                 [value |-> json_value.text,
                                  expire_at |-> now + ttl_hours]),
                         stores)
        ELSE IF ~st.fallback_cache.isNone
             THEN Effect(Return(PyBool(TRUE)), redis,
                         WithFallback(s, DictSet(st.fallback_cache.d, full_key, value)))
             ELSE Effect(Return(PyBool(TRUE)), redis, stores)

\* CacheManager.delete
DeleteEffect(s, key) ==
    LET st == stores[s]
        full_key == make_key(s, key)
    IN  IF st.redis_client
        THEN IF ~backendUp
             THEN Effect(Raise("CACHE_DELETE_ERROR"), redis, stores)
             ELSE Effect(Return(PyBool(TRUE)), DictDel(redis, {full_key}), stores)
        ELSE IF ~st.fallback_cache.isNone /\ full_key \in DOMAIN st.fallback_cache.d
             THEN Effect(Return(PyBool(TRUE)), redis,
                         WithFallback(s, DictDel(st.fallback_cache.d, {full_key})))
             ELSE Effect(Return(PyBool(TRUE)), redis, stores)

\* CacheManager.exists
ExistsOutcome(s, key) ==
    LET st == stores[s]
        full_key == make_key(s, key)
    IN  IF st.redis_client
        THEN IF ~backendUp THEN Raise("CACHE_EXISTS_ERROR")
             ELSE Return(PyBool(full_key \in DOMAIN redis))
        ELSE IF ~st.fallback_cache.isNone
             THEN Return(PyBool(full_key \in DOMAIN st.fallback_cache.d))
             ELSE Return(PyBool(FALSE))

\* CacheManager.clear; a pattern of None and the pattern "" are both <<>>
ClearEffect(s, pattern) ==
    LET st == stores[s]
        search_pattern == make_key(s, IF pattern # <<>> THEN pattern ELSE <<"*">>)
    IN  IF st.redis_client
        THEN IF ~backendUp
             THEN Effect(Raise("CACHE_CLEAR_ERROR"), redis, stores)
             ELSE Effect(Return(PyBool(TRUE)),
                         DictDel(redis, {k \in DOMAIN redis : GlobMatch(search_pattern, k)}),
                         stores)
        ELSE IF ~st.fallback_cache.isNone
             THEN IF pattern # <<>>
                  THEN Effect(Return(PyBool(TRUE)), redis,
                              WithFallback(s, DictDel(st.fallback_cache.d,
                                  {k \in DOMAIN st.fallback_cache.d :
                                      GlobMatch(make_key(s, pattern), k)})))
                  ELSE Effect(Return(PyBool(TRUE)), redis, WithFallback(s, EmptyDict))
             ELSE Effect(Return(PyBool(TRUE)), redis, stores)

HealthDict(status, connected, fallback_active) ==
    PyDict(<< <<"status">>, <<status>>,
              <<"connected">>, <<IF connected THEN "True" ELSE "False">>,
              <<"fallback_active">>, <<IF fallback_active THEN "True" ELSE "False">> >>)

\* CacheManager.health
HealthOutcome(s) ==
    LET st == stores[s]
    IN  IF st.redis_client
        THEN IF backendUp
             THEN Return(HealthDict("healthy", TRUE, FALSE))
             ELSE Return(HealthDict("unhealthy", FALSE, ~st.fallback_cache.isNone))
        ELSE IF ~st.fallback_cache.isNone
             THEN Return(HealthDict("degraded", FALSE, TRUE))
             ELSE Return(HealthDict("unhealthy", FALSE, FALSE))

\* ---------------------------------------------------------------- actions
Event(op, s, key, value, ttl, outcome) ==
    [op |-> op, store |-> s, key |-> key, value |-> value, ttl |-> ttl,
     status |-> outcome.status, ret |-> outcome.ret, code |-> outcome.code]

NoEvent == Event("init", "-", <<>>, PyNone, 0, Return(PyNone))

Apply(op, s, key, value, ttl, eff) ==
    /\ redis' = eff.redis
    /\ stores' = eff.stores
    /\ last' = Event(op, s, key, value, ttl, eff.outcome)
    /\ deadline' = IF op = "set" /\ eff.outcome.status = "ok"
                   THEN DictSet(deadline, <<s, key>>, now + ttl)
                   ELSE deadline
    /\ UNCHANGED <<now, backendUp>>
    /\ UNCHANGED dedupVars
    /\ UNCHANGED extVars

Get(s, key) ==
    Apply("get", s, key, PyNone, 0, Effect(GetOutcome(s, key), redis, stores))

Set(s, key, value, ttl_hours) ==
    Apply("set", s, key, value, ttl_hours, SetEffect(s, key, value, ttl_hours))

Delete(s, key) ==
    Apply("delete", s, key, PyNone, 0, DeleteEffect(s, key))

Exists(s, key) ==
    Apply("exists", s, key, PyNone, 0, Effect(ExistsOutcome(s, key), redis, stores))

\* clear(pattern) with a string for pattern, the empty string <<>> included;
\* the event keeps the argument
Clear(s, pattern) ==
    Apply("clear", s, pattern, [t |-> "str", v |-> <<pattern>>], 0,
          ClearEffect(s, pattern))

\* clear() and clear(None): pattern is None, as falsy as the empty string
ClearNamespace(s) ==
    Apply("clear", s, <<>>, PyNone, 0, ClearEffect(s, <<>>))

Health(s) ==
    Apply("health", s, <<>>, PyNone, 0, Effect(HealthOutcome(s), redis, stores))

\* The remote backend stops answering, or answers again.
BackendFlip ==
    /\ backendUp' = ~backendUp
    /\ last' = Event(IF backendUp THEN "backend_down" ELSE "backend_up",
                     "-", <<>>, PyNone, 0, Return(PyNone))
    /\ UNCHANGED <<now, redis, stores, deadline>>
    /\ UNCHANGED dedupVars
    /\ UNCHANGED extVars

\* Time passes; the backend drops the entries whose expiry time is reached.
\* The in-memory dict holds no expiry time and drops nothing.
Tick(hours, limit) ==
    /\ now + hours <= limit
    /\ now' = now + hours
    /\ redis' = DictDel(redis, {k \in DOMAIN redis : redis[k].expire_at <= now + hours})
    /\ last' = Event("tick", "-", <<>>, PyNone, hours, Return(PyNone))
    /\ UNCHANGED <<backendUp, stores, deadline>>
    /\ UNCHANGED dedupVars
    /\ UNCHANGED extVars

\* ------------------------------------------- the store, one CacheManager
Keys == {<<"k1">>, <<"k2">>}

Values == {PyNone, PyInt("1"), PyList(<< <<"1">> >>), PyTuple(<< <<"1">> >>),
           PyDatetime("2024-01-01T09:15:00")}

Patterns == {<<>>, <<"k1">>, <<"k", "*">>}

NoWorkers ==
    /\ wpc = EmptyDict
    /\ wsig = EmptyDict
    /\ accepted = {}
    /\ marked = EmptyDict
    /\ quiet = TRUE

\* no function is under study
NoCall ==
    /\ arg = <<>>
    /\ res = <<>>

\* no scan request is in progress
NoScan == scan = <<>>

Init ==
    /\ now = 0
    /\ redis = EmptyDict
    /\ last = NoEvent
    /\ deadline = EmptyDict
    /\ NoWorkers
    /\ NoCall
    /\ NoScan
    /\ \E enable_fallback \in BOOLEAN, credentials \in BOOLEAN, reachable \in BOOLEAN :
          /\ backendUp = reachable
          /\ stores = [s \in {"cache"} |->
                         NewStore(<<"stock-scanner">>, enable_fallback,
                                  credentials, reachable)]

Next ==
    \/ \E k \in Keys : Get("cache", k)
    \/ \E k \in Keys, x \in Values, ttl \in 1..MaxTtl : Set("cache", k, x, ttl)
    \/ \E k \in Keys : Delete("cache", k)
    \/ \E k \in Keys : Exists("cache", k)
    \/ \E p \in Patterns : Clear("cache", p)
    \/ ClearNamespace("cache")
    \/ Health("cache")
    \/ BackendFlip
    \/ Tick(1, MaxTime)

Spec == Init /\ [][Next]_vars

\* --------------------------- two CacheManagers sharing one remote backend
NsNames == {<<"a">>, <<"b">>, <<"a", ":", "b">>, <<"*">>}

NsKeys == {<<"x">>, <<"b", ":", "x">>}

NsValues == {PyInt("1"), PyInt("2")}

NsPatterns == {<<>>, <<"x">>, <<"*">>}

NsStores == {"n1", "n2"}

InitNs ==
    /\ now = 0
    /\ redis = EmptyDict
    /\ last = NoEvent
    /\ deadline = EmptyDict
    /\ NoWorkers
    /\ NoCall
    /\ NoScan
    /\ \E ns1 \in NsNames, ns2 \in NsNames, credentials \in BOOLEAN :
          /\ ns1 # ns2
          /\ backendUp = TRUE
          /\ stores = [s \in NsStores |->
                         NewStore(IF s = "n1" THEN ns1 ELSE ns2, TRUE,
                                  credentials, TRUE)]

NextNs ==
    \/ \E s \in NsStores, k \in NsKeys : Get(s, k)
    \/ \E s \in NsStores, k \in NsKeys, x \in NsValues : Set(s, k, x, 1)
    \/ \E s \in NsStores, k \in NsKeys : Delete(s, k)
    \/ \E s \in NsStores, k \in NsKeys : Exists(s, k)
    \/ \E s \in NsStores, p \in NsPatterns : Clear(s, p)
    \/ \E s \in NsStores : ClearNamespace(s)

SpecNs == InitNs /\ [][NextNs]_vars

\* ----------------------------------------------------- SignalDeduplicator
DUPLICATE_CHECK_HOURS == 24

\* The fields of a Signal that the deduplicator reads.
Symbols == {<<"INFY">>, <<"NSE", ":", "INFY">>}

Dates == {"2024-01-01"}

Prices == {"100.0", "101.5"}

Signals ==
    [symbol : Symbols, detected_date : Dates, entry_price : Prices,
     signal_timestamp : {"2024-01-01T09:15:00"}]

\* what a worker that handles no signal holds
NoSignal ==
    [symbol |-> <<>>, detected_date |-> "-", entry_price |-> "-",
     signal_timestamp |-> "-"]

PySignal(sig) ==
    [t |-> "Signal",
     v |-> <<sig.symbol, <<sig.detected_date>>, <<sig.entry_price>>,
             <<sig.signal_timestamp>>>>]

\* f"dup:{signal.symbol}:{signal.detected_date}"
DupKey(sig) == <<"dup", ":">> \o sig.symbol \o <<":", sig.detected_date>>

\* md5(...).hexdigest(): a digest that names its input (no collisions)
Md5Hex(str) == <<"md5">> \o str

\* is_duplicate that also compares the stored hash with the signal's hash
IsDuplicateComparesHash(sig) ==
    LET existing == GetOutcome("cache", DupKey(sig))
        key_str == sig.symbol \o <<"_", sig.detected_date, "_", sig.entry_price>>
    IN  IF existing.status = "error" THEN existing
        ELSE Return(PyBool(/\ Truthy(existing.ret)
                           /\ PyDictGet(existing.ret, "hash") = Md5Hex(key_str)))

\* SignalDeduplicator.is_duplicate: bool(existing and existing.get("hash"));
\* a CacheError of cache.get propagates
IsDuplicateOutcome(sig) ==
    LET existing == GetOutcome("cache", DupKey(sig))
    IN  IF existing.status = "error" THEN existing
        ELSE Return(PyBool(/\ Truthy(existing.ret)
                           /\ PyDictGet(existing.ret, "hash") \notin {<<>>, <<"">>}))

\* SignalDeduplicator.mark_processed; a CacheError of cache.set propagates
MarkProcessedEffect(sig) ==
    LET key_str == sig.symbol \o <<"_", sig.detected_date, "_", sig.entry_price>>
        signal_hash == Md5Hex(key_str)
        cache_key == DupKey(sig)
        data == PyDict(<< <<"hash">>, signal_hash,
                          <<"processed_time">>, <<sig.signal_timestamp>> >>)
        eff == SetEffect("cache", cache_key, data, DUPLICATE_CHECK_HOURS)
    IN  eff

\* A worker asks is_duplicate for a signal; an exception ends its run.
IsDuplicate(w, sig) ==
    LET out == IsDuplicateOutcome(sig)
    IN  /\ wpc[w] = "idle"
        /\ IF out.status = "ok" /\ out.ret = PyBool(FALSE)
           THEN wpc' = [wpc EXCEPT ![w] = "novel"] /\ wsig' = [wsig EXCEPT ![w] = sig]
           ELSE UNCHANGED <<wpc, wsig>>
        /\ last' = Event("is_duplicate", "cache", DupKey(sig), PySignal(sig), 0, out)
        /\ UNCHANGED <<now, backendUp, redis, stores, deadline, accepted, marked, quiet>>
        /\ UNCHANGED extVars

\* The worker accepts the signal is_duplicate reported as novel.
Accept(w) ==
    /\ wpc[w] = "novel"
    /\ wpc' = [wpc EXCEPT ![w] = "accepted"]
    /\ accepted' = IF quiet
                   THEN accepted \cup {<<w, wsig[w].symbol, wsig[w].detected_date>>}
                   ELSE accepted
    /\ last' = Event("accept", "cache", DupKey(wsig[w]), PySignal(wsig[w]), 0,
                     Return(PyNone))
    /\ UNCHANGED <<now, backendUp, redis, stores, deadline, wsig, marked, quiet>>
    /\ UNCHANGED extVars

\* The worker marks the signal it accepted.
MarkProcessed(w) ==
    LET sig == wsig[w]
        eff == MarkProcessedEffect(sig)
        ok == eff.outcome.status = "ok"
    IN  /\ wpc[w] = "accepted"
        /\ wpc' = [wpc EXCEPT ![w] = "idle"]
        /\ wsig' = [wsig EXCEPT ![w] = NoSignal]
        /\ redis' = eff.redis
        /\ stores' = eff.stores
        /\ last' = Event("mark_processed", "cache", DupKey(sig), PySignal(sig),
                         DUPLICATE_CHECK_HOURS, eff.outcome)
        /\ deadline' = IF ok THEN DictSet(deadline, <<"cache", DupKey(sig)>>,
                                          now + DUPLICATE_CHECK_HOURS)
                       ELSE deadline
        /\ marked' = IF ok THEN DictSet(marked, <<sig.symbol, sig.detected_date>>, now)
                     ELSE marked
        /\ UNCHANGED <<now, backendUp, accepted, quiet>>
        /\ UNCHANGED extVars

\* The blanket cache clear.
DedupClear ==
    LET eff == ClearEffect("cache", <<>>)
    IN  /\ redis' = eff.redis
        /\ stores' = eff.stores
        /\ last' = Event("clear", "cache", <<>>, PyNone, 0, eff.outcome)
        /\ marked' = IF eff.outcome.status = "ok" THEN EmptyDict ELSE marked
        /\ quiet' = FALSE
        /\ accepted' = {}
        /\ UNCHANGED <<now, backendUp, deadline, wpc, wsig>>
        /\ UNCHANGED extVars

DedupBackendFlip ==
    /\ stores["cache"].redis_client
    /\ backendUp' = ~backendUp
    /\ last' = Event(IF backendUp THEN "backend_down" ELSE "backend_up",
                     "-", <<>>, PyNone, 0, Return(PyNone))
    /\ quiet' = FALSE
    /\ accepted' = {}
    /\ UNCHANGED <<now, redis, stores, deadline, wpc, wsig, marked>>
    /\ UNCHANGED extVars

\* Half a deduplication window passes.
DedupTick ==
    LET hours == DUPLICATE_CHECK_HOURS \div 2
    IN  /\ now + hours <= MaxDedupTicks * hours
        /\ now' = now + hours
        /\ redis' = DictDel(redis, {k \in DOMAIN redis : redis[k].expire_at <= now + hours})
        /\ last' = Event("tick", "-", <<>>, PyNone, hours, Return(PyNone))
        /\ quiet' = FALSE
        /\ accepted' = {}
        /\ UNCHANGED <<backendUp, stores, deadline, wpc, wsig, marked>>
        /\ UNCHANGED extVars

Workers == {"w1", "w2"}

\* utils/cache.py ends with cache = CacheManager(): the default namespace,
\* fallback enabled.
InitDedup ==
    /\ now = 0
    /\ redis = EmptyDict
    /\ last = NoEvent
    /\ deadline = EmptyDict
    /\ wpc = [w \in Workers |-> "idle"]
    /\ wsig = [w \in Workers |-> NoSignal]
    /\ accepted = {}
    /\ marked = EmptyDict
    /\ quiet = TRUE
    /\ NoCall
    /\ NoScan
    /\ \E credentials \in BOOLEAN, reachable \in BOOLEAN :
          /\ backendUp = reachable
          /\ stores = [s \in {"cache"} |->
                         NewStore(<<"stock-scanner">>, TRUE, credentials, reachable)]

NextDedup ==
    \/ \E w \in Workers, sig \in Signals : IsDuplicate(w, sig)
    \/ \E w \in Workers : Accept(w)
    \/ \E w \in Workers : MarkProcessed(w)
    \/ DedupClear
    \/ DedupBackendFlip
    \/ DedupTick

SpecDedup == InitDedup /\ [][NextDedup]_vars

\* ------------------------------------------------------- claims, the store
\* The types json.loads returns: the values JSON represents.
JsonTypes == {"NoneType", "bool", "int", "str", "list", "dict"}

CacheOps == {"get", "set", "delete", "exists", "clear"}

\* C4: in every backend mode, a set(k, v, ttl) of a JSON-representable v that
\* returned success, followed immediately by get(k), returns a value equal to v.
C4_RoundTripEveryMode ==
    (last.op = "set" /\ last.status = "ok" /\ last.value.t \in JsonTypes)
        => LET got == GetOutcome(last.store, last.key)
           IN  got.status = "ok" /\ got.ret = last.value

\* C5: once the ttl of the last successful set(k, v, ttl) has elapsed, get(k)
\* returns absent, in the in-memory mode as in the remote mode.
C5_UnreadableAfterTtl ==
    \A sk \in DOMAIN deadline :
        (now >= deadline[sk] /\ GetOutcome(sk[1], sk[2]).status = "ok")
            => GetOutcome(sk[1], sk[2]).ret = PyNone

\* C6: a store constructed with a reachable backend does not fail a get, set,
\* delete, exists or clear call made while the backend is unreachable.
C6_NoFailureWhenBackendLost ==
    (last.op \in CacheOps /\ stores[last.store].redis_client /\ ~backendUp
        /\ json_dumps(last.value).ok)
        => last.status = "ok"

\* C7: health() reports degraded/connected=false/fallback_active=true when the
\* calls are served from the in-memory map, reports healthy only when the
\* backend answers the ping, and never reports fallback_active=true while get
\* and set are directed at the remote backend.
C7_HealthReflectsMode ==
    last.op = "health" =>
        LET st == stores[last.store]
            status == PyDictGet(last.ret, "status")
            connected == PyDictGet(last.ret, "connected")
            fallback_active == PyDictGet(last.ret, "fallback_active")
        IN  /\ (~st.redis_client /\ ~st.fallback_cache.isNone)
                => (status = <<"degraded">> /\ connected = <<"False">>
                    /\ fallback_active = <<"True">>)
            /\ status = <<"healthy">>
                => (st.redis_client /\ backendUp /\ fallback_active = <<"False">>)
            /\ fallback_active = <<"True">> => ~st.redis_client

\* C9: a completed set(k, v) makes get(k) return v, a completed delete(k) makes
\* get(k) return absent, and a set or delete never changes what get returns
\* for another key.
C9_LastWriterWins ==
    [][\A s \in DOMAIN stores, k \in {<<"k1">>, <<"k2">>} :
          (last'.op \in {"set", "delete"} /\ last'.store = s
              /\ last'.value.t \in JsonTypes) =>
              IF last'.key = k /\ last'.status = "ok"
              THEN GetOutcome(s, k)' =
                       Return(IF last'.op = "set" THEN last'.value ELSE PyNone)
              ELSE last'.key # k => GetOutcome(s, k)' = GetOutcome(s, k)]_vars

\* C10: set(k, v, ttl) with a value json cannot encode raises a CacheError in
\* every backend mode and changes nothing: every key still reads as before.
C10_UnserializableSetRejected ==
    [][(last'.op = "set" /\ ~json_dumps(last'.value).ok) =>
          /\ last'.status = "error"
          /\ last'.code = "CACHE_SET_ERROR"
          /\ redis' = redis
          /\ stores' = stores
          /\ \A s \in DOMAIN stores, k \in {<<"k1">>, <<"k2">>} :
                GetOutcome(s, k)' = GetOutcome(s, k)]_vars

\* C10 witness: a set of a datetime was rejected while its key held a value.
C10_Witness ==
    /\ last.op = "set"
    /\ last.value.t = "datetime"
    /\ last.status = "error"
    /\ GetOutcome(last.store, last.key).status = "ok"
    /\ GetOutcome(last.store, last.key).ret # PyNone

\* ------------------------------------------------------ claims, clear
\* the namespaced keys of a store's namespace: those that start with
\* "namespace:"
InNamespace(s, full_key) ==
    LET prefix == stores[s].namespace \o <<":">>
    IN  /\ Len(full_key) >= Len(prefix)
        /\ SubSeq(full_key, 1, Len(prefix)) = prefix

\* the namespaced keys the last clear has to remove: with a pattern those
\* that match namespace:pattern, without one those of the namespace
ToClear(s, call, keys) ==
    IF call.value = PyNone THEN {k \in keys : InNamespace(s, k)}
    ELSE {k \in keys : GlobMatch(make_key(s, call.key), k)}

\* C20: a clear(pattern) that returns removes exactly the entries whose
\* namespaced key matches namespace:pattern and leaves every other entry as
\* it was; a clear with no pattern removes every entry of the namespace and
\* nothing else; in remote mode this is said of the backend, in in-memory
\* mode of the fallback dict.
C20_ClearRemovesExactlyTheMatches ==
    [][last'.op = "clear" /\ last'.status = "ok" =>
          LET s == last'.store
              st == stores[s]
          IN  IF st.redis_client
              THEN /\ redis' = DictDel(redis, ToClear(s, last', DOMAIN redis))
                   /\ stores' = stores
              ELSE IF ~st.fallback_cache.isNone
              THEN /\ stores' = WithFallback(s,
                          DictDel(st.fallback_cache.d,
                                  ToClear(s, last', DOMAIN st.fallback_cache.d)))
                   /\ redis' = redis
              ELSE redis' = redis /\ stores' = stores]_vars

\* ------------------------------------------------ claims, exists and get
\* C28: after any sequence of set, delete and clear calls, for every key k,
\* exists(k) returns true if and only if get(k) returns a value rather than
\* absent (None), also when the value stored under k is JSON null or another
\* falsy JSON value; the two calls fail together.
C28_ExistsAgreesWithGet ==
    \A k \in Keys :
        LET found == ExistsOutcome("cache", k)
            got == GetOutcome("cache", k)
        IN  /\ found.status = got.status
            /\ found.status = "ok"
                  => (found.ret = PyBool(TRUE) <=> got.ret # PyNone)

\* ------------------------------------------- claims, the deduplication guard
\* the <<symbol, detected_date>> of the signal of the last guard call
LastPair == <<last.value.v[1], last.value.v[2][1]>>

\* the hash mark_processed computes for the signal of the last guard call
LastHash ==
    Md5Hex(last.value.v[1] \o <<"_", last.value.v[2][1], "_", last.value.v[3][1]>>)

\* C1: when only the workers take steps, no two workers accept a signal with
\* the same (symbol, detected_date).
C1_AtMostOneAccepts ==
    quiet => \A a \in accepted, b \in accepted :
                 (a[2] = b[2] /\ a[3] = b[3]) => a[1] = b[1]

\* C2: with no clear and no expiry since, is_duplicate(s) returns true exactly
\* when a mark_processed call for the (symbol, detected_date) of s has returned,
\* whatever the entry price of s.
C2_DuplicateIffMarked ==
    (last.op = "is_duplicate" /\ last.status = "ok"
        /\ (LastPair \in DOMAIN marked => now < marked[LastPair] + DUPLICATE_CHECK_HOURS))
        => last.ret = PyBool(LastPair \in DOMAIN marked)

\* C2 witness: a signal is reported as a duplicate although the record of its
\* symbol and day was written for another entry price.
C2_Witness ==
    /\ last.op = "is_duplicate"
    /\ last.status = "ok"
    /\ last.ret = PyBool(TRUE)
    /\ LastPair \in DOMAIN marked
    /\ now < marked[LastPair] + DUPLICATE_CHECK_HOURS
    /\ PyDictGet(GetOutcome("cache", last.key).ret, "hash") # LastHash

\* C3: 24 hours after the last mark_processed for a (symbol, detected_date),
\* is_duplicate returns false for it, in remote and in in-memory mode.
C3_RecordExpiresAfter24h ==
    (last.op = "is_duplicate" /\ last.status = "ok"
        /\ LastPair \in DOMAIN marked
        /\ now >= marked[LastPair] + DUPLICATE_CHECK_HOURS)
        => last.ret = PyBool(FALSE)

\* --------------------------------------------------- claims, the namespaces
\* C8: a set, delete or clear through one store never changes what get or
\* exists returns through a store with another namespace.
C8_NamespacesIsolated ==
    [][\A s1 \in NsStores, s2 \in NsStores, k \in NsKeys :
          (s1 # s2 /\ last'.store = s1 /\ last'.op \in {"set", "delete", "clear"})
              => /\ GetOutcome(s2, k)' = GetOutcome(s2, k)
                 /\ ExistsOutcome(s2, k)' = ExistsOutcome(s2, k)]_vars

\* ========================================================= StrategyEngine
\* The feature flags the scan builds, in the order routes.py lists them.
FeatureKeys ==
    {"obv_bullish", "rsi_bullish", "mfi_bullish", "market_structure",
     "candlestick_bullish", "not_falling", "ema_trend", "htf_uptrend"}

\* a Python dict whose values are Python values: d is key -> value
PyMap(d) == [t |-> "dict", d |-> d]

\* features.get(key): None for a missing key; an AttributeError is the
\* caller's to model when features is no dict
MapGet(features, key) ==
    IF key \in DOMAIN features.d THEN features.d[key] ELSE PyNone

\* x and y
PyAnd(x, y) == IF Truthy(x) THEN y ELSE x

\* compute_score that also counts ema_trend
compute_score_counts_ema_trend(features) ==
    IF features.t # "dict" THEN Raise("AttributeError")
    ELSE LET add(key, weight) ==
                 IF Truthy(PyBool(Truthy(MapGet(features, key)))) THEN weight ELSE 0
         IN  Return(add("obv_bullish", 3) + add("rsi_bullish", 2)
                    + add("mfi_bullish", 2) + add("market_structure", 1)
                    + add("candlestick_bullish", 1) + add("not_falling", 2)
                    + add("ema_trend", 1) + add("htf_uptrend", 1))

\* StrategyEngine.compute_score
compute_score(features) ==
    IF features.t # "dict" THEN Raise("AttributeError")
    ELSE LET add(key, weight) ==
                 IF Truthy(PyBool(Truthy(MapGet(features, key)))) THEN weight ELSE 0
         IN  Return(add("obv_bullish", 3) + add("rsi_bullish", 2)
                    + add("mfi_bullish", 2) + add("market_structure", 1)
                    + add("candlestick_bullish", 1) + add("not_falling", 2)
                    + add("htf_uptrend", 1))

\* detect_long_signal without the ema_trend condition
detect_long_signal_without_ema_trend(features) ==
    LET score == compute_score(features)
    IN  IF score.status = "error" THEN Return(PyBool(FALSE))
        ELSE LET cond_not_falling == PyBool(Truthy(MapGet(features, "not_falling")))
             IN  Return(PyAnd(PyBool(score.ret >= 6), cond_not_falling))

\* detect_long_signal without the bool() around the two flags it reads
detect_long_signal_raw_flags(features) ==
    LET score == compute_score(features)
    IN  IF score.status = "error" THEN Return(PyBool(FALSE))
        ELSE LET cond_not_falling == MapGet(features, "not_falling")
                 cond_ema_trend == MapGet(features, "ema_trend")
             IN  Return(PyAnd(PyAnd(PyBool(score.ret >= 6), cond_not_falling),
                              cond_ema_trend))

\* StrategyEngine.detect_long_signal: any exception is logged and becomes False
detect_long_signal(features) ==
    LET score == compute_score(features)
    IN  IF score.status = "error" THEN Return(PyBool(FALSE))
        ELSE LET cond_not_falling == PyBool(Truthy(MapGet(features, "not_falling")))
                 cond_ema_trend == PyBool(Truthy(MapGet(features, "ema_trend")))
             IN  Return(PyAnd(PyAnd(PyBool(score.ret >= 6), cond_not_falling),
                              cond_ema_trend))

\* ===================================================== IndicatorCalculator
\* A Python float is modelled by the rational number it stands for, <<n, d>>
\* in lowest terms with d > 0, and float arithmetic by exact arithmetic.
\* None is <<>>.
None == <<>>

RECURSIVE Gcd(_, _)
Gcd(a, b) == IF b = 0 THEN a ELSE Gcd(b, a % b)

Abs(x) == IF x < 0 THEN 0 - x ELSE x

\* n / d for d # 0
Rat(n, d) ==
    LET g == Gcd(Abs(n), Abs(d))
        sgn == IF d < 0 THEN 0 - 1 ELSE 1
    IN  <<(sgn * n) \div g, (sgn * d) \div g>>

R(n) == <<n, 1>>

\* The operations cancel common factors before they multiply, which keeps
\* the intermediate integers small.
RAdd(x, y) ==
    IF y[1] = 0 THEN x
    ELSE IF x[1] = 0 THEN y
    ELSE LET g == Gcd(x[2], y[2])
         IN  Rat(x[1] * (y[2] \div g) + y[1] * (x[2] \div g),
                 (x[2] \div g) * y[2])

RNeg(x) == <<0 - x[1], x[2]>>

RSub(x, y) == RAdd(x, RNeg(y))

RMul(x, y) ==
    IF x[1] = 0 \/ y[1] = 0 THEN R(0)
    ELSE LET g1 == Gcd(Abs(x[1]), y[2])
             g2 == Gcd(Abs(y[1]), x[2])
         IN  Rat((x[1] \div g1) * (y[1] \div g2),
                 (x[2] \div g2) * (y[2] \div g1))

\* x / y for y # 0
RDiv(x, y) ==
    RMul(x, IF y[1] < 0 THEN <<0 - y[2], 0 - y[1]>> ELSE <<y[2], y[1]>>)

RLt(x, y) ==
    LET g == Gcd(x[2], y[2])
    IN  x[1] * (y[2] \div g) < y[1] * (x[2] \div g)

RLe(x, y) == ~RLt(y, x)

RMax(x, y) == IF RLt(x, y) THEN y ELSE x

RMin(x, y) == IF RLt(y, x) THEN y ELSE x

RAbs(x) == <<Abs(x[1]), x[2]>>

\* sum(xs)
RECURSIVE RSum(_)
RSum(xs) == IF xs = <<>> THEN R(0) ELSE RAdd(Head(xs), RSum(Tail(xs)))

\* where a slice bound i falls in a list of length len
SliceIndex(len, i) ==
    IF i < 0 THEN (IF len + i < 0 THEN 0 ELSE len + i)
    ELSE IF i > len THEN len ELSE i

\* xs[start:stop]; an omitted stop is Len(xs)
PySlice(xs, start, stop) ==
    LET a == SliceIndex(Len(xs), start)
        b == SliceIndex(Len(xs), stop)
    IN  IF a >= b THEN <<>> ELSE SubSeq(xs, a + 1, b)

\* xs[i] for an index in range; a negative index counts from the end
PyIndex(xs, i) == IF i < 0 THEN xs[Len(xs) + i + 1] ELSE xs[i + 1]

\* [None] * n
Nones(n) == [i \in 1..n |-> None]

\* the shortest of the lists zip walks
ZipLen(lists) ==
    CHOOSE m \in {Len(lists[i]) : i \in DOMAIN lists} :
        \A i \in DOMAIN lists : m <= Len(lists[i])

\* IndicatorCalculator.sma
sma(prices, period) ==
    IF period <= 0 THEN Raise("ValueError")
    ELSE Return([i1 \in 1..Len(prices) |->
                    LET i == i1 - 1
                    IN  IF i < period - 1 THEN None
                        ELSE RDiv(RSum(PySlice(prices, i - period + 1, i + 1)),
                                  R(period))])

\* ema_loop with k = 2 / period in place of 2 / (period + 1)
RECURSIVE ema_loop_k_over_period(_, _, _, _)
ema_loop_k_over_period(prices, period, i, ema_list) ==
    IF i >= Len(prices) THEN ema_list
    ELSE LET price == PyIndex(prices, i)
             k == Rat(2, period)
             value ==
                 IF i < period - 1 THEN None
                 ELSE IF i = period - 1
                      THEN RDiv(RSum(PySlice(prices, 0, period)), R(period))
                      ELSE LET prev == PyIndex(ema_list, 0 - 1)
                           IN  RAdd(RMul(price, k),
                                    RMul(IF prev # None THEN prev ELSE price,
                                         RSub(R(1), k)))
         IN  ema_loop_k_over_period(prices, period, i + 1, Append(ema_list, value))

\* the for loop of ema from index i on, ema_list being what it has appended
RECURSIVE ema_loop(_, _, _, _)
ema_loop(prices, period, i, ema_list) ==
    IF i >= Len(prices) THEN ema_list
    ELSE LET price == PyIndex(prices, i)
             k == Rat(2, period + 1)
             value ==
                 IF i < period - 1 THEN None
                 ELSE IF i = period - 1
                      THEN RDiv(RSum(PySlice(prices, 0, period)), R(period))
                      ELSE LET prev == PyIndex(ema_list, 0 - 1)
                           IN  RAdd(RMul(price, k),
                                    RMul(IF prev # None THEN prev ELSE price,
                                         RSub(R(1), k)))
         IN  ema_loop(prices, period, i + 1, Append(ema_list, value))

\* IndicatorCalculator.ema
ema(prices, period) ==
    IF period <= 0 THEN Raise("ValueError")
    ELSE Return(ema_loop(prices, period, 0, <<>>))

\* rsi's value with 100 + 100 / (1 + rs) in place of 100 - 100 / (1 + rs)
rsi_value_plus(avg_gain, avg_loss) ==
    IF avg_loss = R(0) THEN R(100)
    ELSE LET rs == RDiv(avg_gain, avg_loss)
         IN  RAdd(R(100), RDiv(R(100), RAdd(R(1), rs)))

\* rsi: 100.0 when avg_loss == 0, else 100 - 100 / (1 + rs)
rsi_value(avg_gain, avg_loss) ==
    IF avg_loss = R(0) THEN R(100)
    ELSE LET rs == RDiv(avg_gain, avg_loss)
         IN  RSub(R(100), RDiv(R(100), RAdd(R(1), rs)))

\* the <<avg_gain, avg_loss>> pairs of rsi's loop over deltas[period:], averages
\* being the pairs so far, the seed pair first
RECURSIVE rsi_loop(_, _, _)
rsi_loop(deltas, period, averages) ==
    IF deltas = <<>> THEN averages
    ELSE LET delta == Head(deltas)
             gain == RMax(delta, R(0))
             loss == RNeg(RMin(delta, R(0)))
             prev == averages[Len(averages)]
             avg_gain == RDiv(RAdd(RMul(prev[1], R(period - 1)), gain), R(period))
             avg_loss == RDiv(RAdd(RMul(prev[2], R(period - 1)), loss), R(period))
         IN  rsi_loop(Tail(deltas), period, Append(averages, <<avg_gain, avg_loss>>))

\* the <<avg_gain, avg_loss>> pair behind each defined value of rsi, for
\* period > 0 and len(prices) >= period + 1
rsi_averages(prices, period) ==
    LET n == Len(prices)
        deltas == [i \in 1..(n - 1) |-> RSub(prices[i + 1], prices[i])]
        seed == PySlice(deltas, 0, period)
        avg_gain == RDiv(RSum(SelectSeq(seed, LAMBDA x : RLt(R(0), x))), R(period))
        avg_loss == RDiv(RNeg(RSum(SelectSeq(seed, LAMBDA x : RLt(x, R(0))))),
                         R(period))
    IN  rsi_loop(PySlice(deltas, period, Len(deltas)), period,
                 << <<avg_gain, avg_loss>> >>)

\* rsi that returns 50 for every bar of a series shorter than period + 1
rsi_neutral_when_short(prices, period) ==
    IF period <= 0 THEN Raise("ValueError")
    ELSE IF Len(prices) < period + 1
    THEN Return([i \in 1..Len(prices) |-> R(50)])
    ELSE LET averages == rsi_averages(prices, period)
         IN  Return(Nones(period) \o
                    [i \in 1..Len(averages) |->
                        rsi_value(averages[i][1], averages[i][2])])

\* rsi with [None] * (period + 1) in front of the first value
rsi_one_more_none(prices, period) ==
    IF period <= 0 THEN Raise("ValueError")
    ELSE IF Len(prices) < period + 1 THEN Return(Nones(Len(prices)))
    ELSE LET averages == rsi_averages(prices, period)
         IN  Return(Nones(period + 1) \o
                    [i \in 1..Len(averages) |->
                        rsi_value(averages[i][1], averages[i][2])])

\* IndicatorCalculator.rsi
rsi(prices, period) ==
    IF period <= 0 THEN Raise("ValueError")
    ELSE IF Len(prices) < period + 1 THEN Return(Nones(Len(prices)))
    ELSE LET averages == rsi_averages(prices, period)
         IN  Return(Nones(period) \o
                    [i \in 1..Len(averages) |->
                        rsi_value(averages[i][1], averages[i][2])])

\* [(h + l + c) / 3 for h, l, c in zip(highs, lows, closes)]
typical_prices(highs, lows, closes) ==
    [i \in 1..ZipLen(<<highs, lows, closes>>) |->
        RDiv(RAdd(RAdd(highs[i], lows[i]), closes[i]), R(3))]

\* [tp * v for tp, v in zip(typical_prices, volumes)]
money_flows(tps, volumes) ==
    [i \in 1..ZipLen(<<tps, volumes>>) |-> RMul(tps[i], volumes[i])]

\* sum(money_flows[j] for j in range(j, stop) if typical_prices[j] > (rising)
\* or < (not rising) typical_prices[j - 1]); at j = 0 the index j - 1 is -1,
\* the last element of the list
RECURSIVE flow_sum(_, _, _, _, _)
flow_sum(tps, flows, j, stop, rising) ==
    IF j >= stop THEN R(0)
    ELSE LET cur == PyIndex(tps, j)
             before == PyIndex(tps, j - 1)
             counted == IF rising THEN RLt(before, cur) ELSE RLt(cur, before)
         IN  RAdd(IF counted THEN PyIndex(flows, j) ELSE R(0),
                  flow_sum(tps, flows, j + 1, stop, rising))

\* mfi's positive_flow and negative_flow of the window that ends before i
positive_flow(tps, flows, i, period) == flow_sum(tps, flows, i - period, i, TRUE)

negative_flow(tps, flows, i, period) == flow_sum(tps, flows, i - period, i, FALSE)

\* mfi: 100.0 when negative_flow == 0, else 100 - (100 / (1 + money_ratio))
mfi_value(pos, neg) ==
    IF neg = R(0) THEN R(100)
    ELSE LET money_ratio == RDiv(pos, neg)
         IN  RSub(R(100), RDiv(R(100), RAdd(R(1), money_ratio)))

\* IndicatorCalculator.mfi, for parallel lists of equal length
mfi(highs, lows, closes, volumes, period) ==
    IF period <= 0 THEN Raise("ValueError")
    ELSE IF Len(closes) < period + 1 THEN Return(Nones(Len(closes)))
    ELSE LET n == Len(closes)
             tps == typical_prices(highs, lows, closes)
             flows == money_flows(tps, volumes)
         IN  Return(Nones(period) \o
                    [x \in 1..(n - period) |->
                        LET i == period + x - 1
                        IN  mfi_value(positive_flow(tps, flows, i, period),
                                      negative_flow(tps, flows, i, period))])

\* the for loop of obv from index i on
RECURSIVE obv_loop(_, _, _, _, _)
obv_loop(closes, volumes, i, current_obv, obv_values) ==
    IF i >= Len(closes) THEN obv_values
    ELSE LET cur == PyIndex(closes, i)
             before == PyIndex(closes, i - 1)
             next_obv == IF RLt(before, cur)
                         THEN RAdd(current_obv, PyIndex(volumes, i))
                         ELSE IF RLt(cur, before)
                              THEN RSub(current_obv, PyIndex(volumes, i))
                              ELSE current_obv
         IN  obv_loop(closes, volumes, i + 1, next_obv, Append(obv_values, next_obv))

\* IndicatorCalculator.obv; volumes[i] is read where the close moved, and
\* raises IndexError when volumes is too short for it
obv(closes, volumes) ==
    IF closes = <<>> THEN Return(<<>>)
    ELSE IF \E i \in 1..(Len(closes) - 1) :
                /\ PyIndex(closes, i) # PyIndex(closes, i - 1)
                /\ i >= Len(volumes)
         THEN Raise("IndexError")
         ELSE Return(obv_loop(closes, volumes, 1, R(0), <<R(0)>>))

\* the for loop of vwap over the zipped bars from position i (1-based) on
RECURSIVE vwap_loop(_, _, _, _, _, _)
vwap_loop(tps, volumes, i, cumulative_tp_volume, cumulative_volume, vwap_values) ==
    IF i > ZipLen(<<tps, volumes>>) THEN vwap_values
    ELSE LET tpv == RAdd(cumulative_tp_volume, RMul(tps[i], volumes[i]))
             vol == RAdd(cumulative_volume, volumes[i])
         IN  vwap_loop(tps, volumes, i + 1, tpv, vol,
                       Append(vwap_values,
                              IF vol = R(0) THEN None ELSE RDiv(tpv, vol)))

\* IndicatorCalculator.vwap
vwap(highs, lows, closes, volumes) ==
    Return(vwap_loop(typical_prices(highs, lows, closes), volumes, 1,
                     R(0), R(0), <<>>))

\* the for loop of ad_line over the zipped bars from position i (1-based) on
RECURSIVE ad_loop(_, _, _, _, _, _, _)
ad_loop(highs, lows, closes, volumes, i, cumulative_ad, ad_values) ==
    IF i > ZipLen(<<highs, lows, closes, volumes>>) THEN ad_values
    ELSE LET h == highs[i]
             l == lows[i]
             c == closes[i]
             clv == IF h = l THEN R(0)
                    ELSE RDiv(RSub(RSub(c, l), RSub(h, c)), RSub(h, l))
             ad == RAdd(cumulative_ad, RMul(clv, volumes[i]))
         IN  ad_loop(highs, lows, closes, volumes, i + 1, ad, Append(ad_values, ad))

\* IndicatorCalculator.ad_line
ad_line(highs, lows, closes, volumes) ==
    Return(ad_loop(highs, lows, closes, volumes, 1, R(0), <<>>))

\* [i for i, x in enumerate(xs) if x is not None], as 1-based positions
RECURSIVE NonNonePositions(_, _)
NonNonePositions(xs, i) ==
    IF i > Len(xs) THEN <<>>
    ELSE (IF xs[i] # None THEN <<i>> ELSE <<>>) \o NonNonePositions(xs, i + 1)

\* DiffWhereDefined with 0 in place of None for an undefined y
DiffWhereFirstDefined(xs, ys) ==
    [i \in 1..ZipLen(<<xs, ys>>) |->
        IF xs[i] = None THEN None
        ELSE IF ys[i] = None THEN xs[i] ELSE RSub(xs[i], ys[i])]

\* zip(xs, ys) mapped to x - y, None where either is None
DiffWhereDefined(xs, ys) ==
    [i \in 1..ZipLen(<<xs, ys>>) |->
        IF xs[i] = None \/ ys[i] = None THEN None ELSE RSub(xs[i], ys[i])]

\* IndicatorCalculator.macd; the ValueError of an ema call propagates, and
\* ema(signal_prices, signal) is called only when macd_line has a value
macd(prices, fast, slow, signal) ==
    LET ema_fast == ema(prices, fast)
        ema_slow == ema(prices, slow)
    IN  IF ema_fast.status = "error" THEN ema_fast
        ELSE IF ema_slow.status = "error" THEN ema_slow
        ELSE LET macd_line == DiffWhereDefined(ema_fast.ret, ema_slow.ret)
                 non_none == NonNonePositions(macd_line, 1)
                 signal_prices == [i \in 1..Len(non_none) |-> macd_line[non_none[i]]]
                 signal_ema == ema(signal_prices, signal)
                 signal_line ==
                     [idx \in 1..Len(macd_line) |->
                         IF macd_line[idx] = None THEN None
                         ELSE signal_ema.ret[CHOOSE i \in 1..Len(non_none) :
                                                 non_none[i] = idx]]
             IN  IF non_none # <<>> /\ signal_ema.status = "error" THEN signal_ema
                 ELSE IF non_none # <<>>
                 THEN Return([macd |-> macd_line, signal |-> signal_line,
                              histogram |-> DiffWhereDefined(macd_line, signal_line)])
                 ELSE Return([macd |-> macd_line,
                              signal |-> Nones(Len(macd_line)),
                              histogram |-> DiffWhereDefined(macd_line,
                                                             Nones(Len(macd_line)))])

\* atr: one true range, highs[0] - lows[0] at index 0
TrueRange(highs, lows, closes, i) ==
    IF i = 0 THEN RSub(PyIndex(highs, 0), PyIndex(lows, 0))
    ELSE RMax(RMax(RSub(PyIndex(highs, i), PyIndex(lows, i)),
                   RAbs(RSub(PyIndex(highs, i), PyIndex(closes, i - 1)))),
              RAbs(RSub(PyIndex(lows, i), PyIndex(closes, i - 1))))

\* the Wilder loop of atr from index i on, atr_values being what it has appended
RECURSIVE atr_loop(_, _, _, _)
atr_loop(true_ranges, period, i, atr_values) ==
    IF i >= Len(true_ranges) THEN atr_values
    ELSE LET prev == PyIndex(atr_values, 0 - 1)
             cur == RDiv(RAdd(RMul(prev, R(period - 1)), PyIndex(true_ranges, i)),
                         R(period))
         IN  atr_loop(true_ranges, period, i + 1, Append(atr_values, cur))

\* IndicatorCalculator.atr, for parallel lists of equal length
atr(highs, lows, closes, period) ==
    IF period <= 0 THEN Raise("ValueError")
    ELSE IF Len(closes) < 2 THEN Return(Nones(Len(closes)))
    ELSE LET n == Len(closes)
             true_ranges == [i1 \in 1..n |-> TrueRange(highs, lows, closes, i1 - 1)]
         IN  IF Len(true_ranges) < period THEN Return(Nones(n))
             ELSE Return(atr_loop(true_ranges, period, period,
                                  Append(Nones(period - 1),
                                         RDiv(RSum(PySlice(true_ranges, 0, period)),
                                              R(period)))))

\* mid + k * variance ** 0.5, the square root being left unevaluated
BandValue(mid, k, variance) == <<mid, k, variance>>

\* IndicatorCalculator.bollinger_bands; the ValueError of sma propagates
bollinger_bands(prices, period, std_dev) ==
    LET middle == sma(prices, period)
        variance(i) ==
            LET window == PySlice(prices, i - period + 1, i + 1)
                m == PyIndex(middle.ret, i)
            IN  RDiv(RSum([x \in 1..Len(window) |->
                              RMul(RSub(window[x], m), RSub(window[x], m))]),
                     R(period))
        band(k) ==
            [i1 \in 1..Len(prices) |->
                LET i == i1 - 1
                IN  IF i < period - 1 THEN None
                    ELSE BandValue(PyIndex(middle.ret, i), k, variance(i))]
    IN  IF middle.status = "error" THEN middle
        ELSE Return([upper |-> band(std_dev), middle |-> middle.ret,
                     lower |-> band(RNeg(std_dev))])

\* IndicatorCalculator.detect_bullish_candle
detect_bullish_candle(opens, highs, lows, closes, idx) ==
    IF idx < 2 \/ idx >= Len(closes) THEN Return(PyBool(FALSE))
    ELSE LET o == PyIndex(opens, idx)
             h == PyIndex(highs, idx)
             l == PyIndex(lows, idx)
             c == PyIndex(closes, idx)
             body == RAbs(RSub(c, o))
             range_hl == RSub(h, l)
             o_prev == PyIndex(opens, idx - 1)
             c_prev == PyIndex(closes, idx - 1)
             lower_wick == RSub(o, l)
             upper_wick == RSub(h, c)
             hammer == /\ RLt(o, c) /\ RLt(R(0), range_hl)
                       /\ RLt(RMul(R(2), body), lower_wick)
                       /\ RLt(upper_wick, RMul(body, Rat(1, 10)))
             engulfing == /\ RLt(o, c) /\ RLt(c_prev, o_prev)
                          /\ RLt(o_prev, c) /\ RLt(o, c_prev)
         IN  Return(PyBool(hammer \/ engulfing))

\* IndicatorCalculator.is_uptrend: no check of period; the division by
\* period raises ZeroDivisionError when it is reached with period 0
is_uptrend(prices, period, lookback) ==
    IF Len(prices) < period + lookback THEN Return(PyBool(FALSE))
    ELSE IF period = 0 THEN Raise("ZeroDivisionError")
    ELSE LET recent_ma == RDiv(RSum(PySlice(prices, 0 - period, Len(prices))),
                               R(period))
             older_ma == RDiv(RSum(PySlice(prices, 0 - period - lookback,
                                           0 - lookback)),
                              R(period))
         IN  Return(PyBool(RLt(older_ma, recent_ma)))

\* ---------------------------------------- the scoring functions, called once
\* what a flag of the feature map may hold
FlagValues == {PyBool(TRUE), PyBool(FALSE)}

\* what the two flags detect_long_signal reads itself may hold
LooseFlagValues == FlagValues \cup {PyNone, PyInt("1")}

\* the values a key may hold
ValuesOf(key) ==
    IF key \in {"not_falling", "ema_trend"} THEN LooseFlagValues ELSE FlagValues

\* every dict over a subset of the 8 keys, and one argument that is no dict
FeatureInputs ==
    {PyNone} \cup
    {PyMap(d) : d \in UNION {{f \in [present -> LooseFlagValues] :
                                  \A key \in present : f[key] \in ValuesOf(key)} :
                             present \in SUBSET FeatureKeys}}

NoCacheInUse ==
    /\ now = 0
    /\ backendUp = FALSE
    /\ redis = EmptyDict
    /\ stores = EmptyDict
    /\ last = NoEvent
    /\ deadline = EmptyDict

InitScore ==
    /\ NoCacheInUse
    /\ NoWorkers
    /\ NoScan
    /\ arg \in {[features |-> f] : f \in FeatureInputs}
    /\ res = <<>>

CallComputeScore ==
    /\ res = <<>>
    /\ res' = [fn |-> "compute_score", out |-> compute_score(arg.features)]
    /\ UNCHANGED <<now, backendUp, redis, stores, last, deadline, arg, scan>>
    /\ UNCHANGED dedupVars

CallDetectLongSignal ==
    /\ res = <<>>
    /\ res' = [fn |-> "detect_long_signal", out |-> detect_long_signal(arg.features)]
    /\ UNCHANGED <<now, backendUp, redis, stores, last, deadline, arg, scan>>
    /\ UNCHANGED dedupVars

NextScore ==
    \/ CallComputeScore
    \/ CallDetectLongSignal

SpecScore == InitScore /\ [][NextScore]_vars

\* --------------------------------------------------- claims, the scoring
\* the weights the specification gives
ScoreWeights ==
    [obv_bullish |-> 3, rsi_bullish |-> 2, mfi_bullish |-> 2,
     market_structure |-> 1, candlestick_bullish |-> 1, not_falling |-> 2,
     htf_uptrend |-> 1]

RECURSIVE SumWeights(_)
SumWeights(keys) ==
    IF keys = {} THEN 0
    ELSE LET key == CHOOSE k \in keys : TRUE
         IN  ScoreWeights[key] + SumWeights(keys \ {key})

\* the weighted keys that are present and truthy in a feature map
TruthyFlags(features) ==
    {key \in DOMAIN ScoreWeights :
        key \in DOMAIN features.d /\ Truthy(features.d[key])}

\* C15: for every feature map compute_score returns the sum of the weights
\* 3, 2, 2, 1, 1, 2, 1 over the truthy flags (missing keys and ema_trend add
\* nothing), an integer from 0 to 12; the map with obv_bullish, rsi_bullish,
\* mfi_bullish and not_falling true scores 9.
C15_ScoreIsWeightedSum ==
    (res # <<>> /\ res.fn = "compute_score" /\ arg.features.t = "dict") =>
        /\ res.out.status = "ok"
        /\ res.out.ret = SumWeights(TruthyFlags(arg.features))
        /\ res.out.ret \in 0..12
        /\ arg.features.d = [key \in {"obv_bullish", "rsi_bullish", "mfi_bullish",
                                       "not_falling"} |-> PyBool(TRUE)]
              => res.out.ret = 9

\* C15 witness: a map that holds ema_trend and lacks other keys was scored 9.
C15_Witness ==
    /\ res # <<>>
    /\ res.fn = "compute_score"
    /\ arg.features.t = "dict"
    /\ "ema_trend" \in DOMAIN arg.features.d
    /\ Truthy(arg.features.d["ema_trend"])
    /\ DOMAIN arg.features.d # FeatureKeys
    /\ res.out = Return(9)

\* C16: for every feature map detect_long_signal is true exactly when the
\* score is at least 6 and not_falling and ema_trend are truthy; for every
\* input it returns a boolean and raises nothing.
C16_LongSignalIffRule ==
    (res # <<>> /\ res.fn = "detect_long_signal") =>
        /\ res.out.status = "ok"
        /\ res.out.ret \in {PyBool(TRUE), PyBool(FALSE)}
        /\ arg.features.t = "dict" =>
              (res.out.ret = PyBool(TRUE)) <=>
                  /\ compute_score(arg.features).ret >= 6
                  /\ Truthy(MapGet(arg.features, "not_falling"))
                  /\ Truthy(MapGet(arg.features, "ema_trend"))

\* C16 witness: the decision is the boolean True for a map whose ema_trend is
\* the integer 1 and whose not_falling is True.
C16_Witness ==
    /\ res # <<>>
    /\ res.fn = "detect_long_signal"
    /\ arg.features.t = "dict"
    /\ res.out.ret = PyBool(TRUE)
    /\ MapGet(arg.features, "ema_trend") = PyInt("1")
    /\ MapGet(arg.features, "not_falling") = PyBool(TRUE)

\* ============================================================ POST /scan
\* A symbol of a scan request is a string of single characters.
PyStr(chars) == [t |-> "str", v |-> <<chars>>]

UpperLetters ==
    <<"A", "B", "C", "D", "E", "F", "G", "H", "I", "J", "K", "L", "M",
      "N", "O", "P", "Q", "R", "S", "T", "U", "V", "W", "X", "Y", "Z">>

LowerLetters ==
    <<"a", "b", "c", "d", "e", "f", "g", "h", "i", "j", "k", "l", "m",
      "n", "o", "p", "q", "r", "s", "t", "u", "v", "w", "x", "y", "z">>

UpperCase == {UpperLetters[i] : i \in DOMAIN UpperLetters}

Digits == {"0", "1", "2", "3", "4", "5", "6", "7", "8", "9"}

\* c.upper() for one character
ToUpper(c) ==
    IF \E i \in DOMAIN LowerLetters : LowerLetters[i] = c
    THEN UpperLetters[CHOOSE i \in DOMAIN LowerLetters : LowerLetters[i] = c]
    ELSE c

\* s.strip().upper()
RECURSIVE LStrip(_)
LStrip(s) == IF s # <<>> /\ Head(s) = " " THEN LStrip(Tail(s)) ELSE s

RECURSIVE RStrip(_)
RStrip(s) ==
    IF s # <<>> /\ s[Len(s)] = " " THEN RStrip(SubSeq(s, 1, Len(s) - 1)) ELSE s

StripUpper(s) ==
    LET t == RStrip(LStrip(s))
    IN  [i \in 1..Len(t) |-> ToUpper(t[i])]

\* validate_symbol: ^([A-Z]{3,}:[A-Z0-9]{1,20}|[A-Z0-9]+)$ on the stripped,
\* upper-cased symbol; a ValidationError otherwise and for a non-string
validate_symbol(symbol) ==
    IF symbol.t # "str" THEN Raise("ValidationError")
    ELSE LET s == StripUpper(symbol.v[1])
             alnum(c) == c \in UpperCase \cup Digits
             index == s # <<>> /\ \A i \in 1..Len(s) : alnum(s[i])
             exchange ==
                 \E k \in 1..Len(s) :
                     /\ s[k] = ":"
                     /\ k - 1 >= 3
                     /\ \A i \in 1..(k - 1) : s[i] \in UpperCase
                     /\ Len(s) - k \in 1..20
                     /\ \A i \in (k + 1)..Len(s) : alnum(s[i])
         IN  IF exchange \/ index THEN Return(PyBool(TRUE))
             ELSE Raise("ValidationError")

\* A price argument: an int, a float or a bool with its value q, the float
\* nan, the float inf, or something that is not a number (a str, None).
PyNumber(t, q) == [t |-> t, kind |-> "finite", q |-> q]

PyNaN == [t |-> "float", kind |-> "nan", q |-> R(0)]

PyInf == [t |-> "float", kind |-> "inf", q |-> R(0)]

NotNumber(t) == [t |-> t, kind |-> "-", q |-> R(0)]

\* x < y for numbers: every comparison with nan is False
PyLess(x, y) ==
    IF x.kind = "nan" \/ y.kind = "nan" THEN FALSE
    ELSE IF x.kind = "inf" THEN FALSE
    ELSE IF y.kind = "inf" THEN TRUE
    ELSE RLt(x.q, y.q)

\* x <= y for numbers
PyLessEq(x, y) ==
    IF x.kind = "nan" \/ y.kind = "nan" THEN FALSE
    ELSE ~PyLess(y, x)

\* validate_price: a ValidationError for a price that is no int or float
\* (bool is an int), one below min_price and one above max_price
validate_price(price, min_price, max_price) ==
    IF price.t \notin {"int", "float", "bool"} THEN Raise("ValidationError")
    ELSE IF PyLess(price, min_price) THEN Raise("ValidationError")
    ELSE IF PyLess(max_price, price) THEN Raise("ValidationError")
    ELSE Return(PyBool(TRUE))

\* validate_entry: the three prices are validated with the defaults
\* min_price = 0.01 and max_price = 1000000, then compared
validate_entry(entry_price, stop_loss, take_profit) ==
    LET min_price == PyNumber("float", Rat(1, 100))
        max_price == PyNumber("int", R(1000000))
        entry_ok == validate_price(entry_price, min_price, max_price)
        stop_ok == validate_price(stop_loss, min_price, max_price)
        take_ok == validate_price(take_profit, min_price, max_price)
    IN  IF entry_ok.status = "error" THEN entry_ok
        ELSE IF stop_ok.status = "error" THEN stop_ok
        ELSE IF take_ok.status = "error" THEN take_ok
        ELSE IF PyLessEq(entry_price, stop_loss) THEN Raise("ValidationError")
        ELSE IF PyLessEq(take_profit, entry_price) THEN Raise("ValidationError")
        ELSE Return(PyBool(TRUE))

\* f"scan:{symbol}:{interval}:{n}" and f"ohlcv:{symbol}:{interval}:{n}"
\* for the payload's defaults interval = "1d" and n = 200
ScanKey(symbol) == <<"scan", ":">> \o symbol.v[1] \o <<":", "1d", ":", "200">>

OhlcvKey(symbol) == <<"ohlcv", ":">> \o symbol.v[1] \o <<":", "1d", ":", "200">>

\* The OHLCV dict a provider returns: five lists of floats.
Ohlcv(opens, highs, lows, closes, volumes) ==
    PyDict(<< <<"open">>, opens, <<"high">>, highs, <<"low">>, lows,
              <<"close">>, closes, <<"volume">>, volumes >>)

\* LastDefined with 0 in place of None when no value is defined
LastDefinedOrZero(xs) ==
    LET defined == {i \in 1..Len(xs) : xs[i] # None}
    IN  IF defined = {} THEN R(0)
        ELSE xs[CHOOSE i \in defined : \A j \in defined : j <= i]

\* next((v for v in reversed(xs) if v is not None), None)
LastDefined(xs) ==
    LET defined == {i \in 1..Len(xs) : xs[i] # None}
    IN  IF defined = {} THEN None
        ELSE xs[CHOOSE i \in defined : \A j \in defined : j <= i]

\* a float or None as the one value of a dict entry
Scalar(x) == IF x = None THEN <<>> ELSE <<x>>

\* the names routes.py gives the nested entries of a result
FeatureEntry(features, key) ==
    << <<"features", key>>, features.d[key].v[1] >>

\* scan, lines 98-138: the indicators, the features, the score, the decision
\* and the result dict; an exception of an indicator propagates
ScanResult(data) ==
    LET opens == PyDictGet(data, "open")
        highs == PyDictGet(data, "high")
        lows == PyDictGet(data, "low")
        closes == PyDictGet(data, "close")
        volumes == PyDictGet(data, "volume")
        rsi_vals == rsi(closes, 14)
        mfi_vals == mfi(highs, lows, closes, volumes, 14)
        obv_vals == obv(closes, volumes)
        ema_fast == ema(closes, 12)
        ema_slow == ema(closes, 26)
        htf_up == is_uptrend(closes, 50, 10)
        candle_bull == detect_bullish_candle(opens, highs, lows, closes,
                                             Len(closes) - 1)
        last_rsi == LastDefined(rsi_vals.ret)
        last_mfi == LastDefined(mfi_vals.ret)
        last_obv == IF obv_vals.ret # <<>> THEN PyIndex(obv_vals.ret, 0 - 1) ELSE None
        prev_obv == IF Len(obv_vals.ret) >= 2 THEN PyIndex(obv_vals.ret, 0 - 2)
                    ELSE None
        last_fast == LastDefined(ema_fast.ret)
        last_slow == LastDefined(ema_slow.ret)
        last_close == PyIndex(closes, 0 - 1)
        features ==
            PyMap([key \in FeatureKeys |->
                PyBool(CASE key = "obv_bullish" ->
                                /\ prev_obv # None /\ last_obv # None
                                /\ RLt(prev_obv, last_obv)
                         [] key = "rsi_bullish" ->
                                last_rsi # None /\ RLt(last_rsi, R(40))
                         [] key = "mfi_bullish" ->
                                last_mfi # None /\ RLt(last_mfi, R(40))
                         [] key = "market_structure" ->
                                RLt(RDiv(RSum(PySlice(closes, 0 - 10, Len(closes))),
                                         R(IF Len(closes) < 10 THEN Len(closes)
                                           ELSE 10)),
                                    last_close)
                         [] key = "candlestick_bullish" -> Truthy(candle_bull.ret)
                         [] key = "not_falling" ->
                                IF Len(closes) >= 3
                                THEN RLe(PyIndex(closes, 0 - 3), last_close)
                                ELSE TRUE
                         [] key = "htf_uptrend" -> Truthy(htf_up.ret)
                         [] OTHER ->
                                /\ last_fast # None /\ last_slow # None
                                /\ RLt(last_slow, last_fast))])
        score == compute_score(features)
        buy_signal == detect_long_signal(features)
        outs == <<rsi_vals, mfi_vals, obv_vals, ema_fast, ema_slow, htf_up,
                  candle_bull>>
        failed == {i \in DOMAIN outs : outs[i].status = "error"}
    IN  IF failed # {}
        THEN Raise(outs[CHOOSE i \in failed : \A j \in failed : i <= j].code)
        ELSE Return(PyDict(
                 << <<"score">>, <<ToString(score.ret)>>,
                    <<"buy_signal">>,
                    PyBool(Truthy(buy_signal.ret)).v[1] >>
                 \o FeatureEntry(features, "obv_bullish")
                 \o FeatureEntry(features, "rsi_bullish")
                 \o FeatureEntry(features, "mfi_bullish")
                 \o FeatureEntry(features, "market_structure")
                 \o FeatureEntry(features, "candlestick_bullish")
                 \o FeatureEntry(features, "not_falling")
                 \o FeatureEntry(features, "htf_uptrend")
                 \o FeatureEntry(features, "ema_trend")
                 \o << <<"last", "close">>, Scalar(last_close),
                       <<"last", "rsi">>, Scalar(last_rsi),
                       <<"last", "mfi">>, Scalar(last_mfi) >>))

\* CacheManager.TTL_STOCK_DATA, the ttl_hours fetch passes to cache.set
TTL_STOCK_DATA == 1

\* StockDataFetcher.fetch: validate_symbol (its error propagates), the cached
\* OHLCV if cache.get returns one, else what the providers return (provided),
\* written to the cache when it is not empty; an exception of cache.get or
\* cache.set is swallowed
FetchEffect(symbol, provided) ==
    LET valid == validate_symbol(symbol)
        cache_key == OhlcvKey(symbol)
        got == GetOutcome("cache", cache_key)
        written == SetEffect("cache", cache_key, provided, TTL_STOCK_DATA)
    IN  IF valid.status = "error" THEN Effect(valid, redis, stores)
        ELSE IF got.status = "ok" /\ Truthy(got.ret)
        THEN Effect(Return(got.ret), redis, stores)
        ELSE IF Truthy(provided)
        THEN Effect(Return(provided), written.redis, written.stores)
        ELSE Effect(Return(PyNone), redis, stores)

\* the entries scan appends to results
ErrorEntry(symbol, message) ==
    PyDict(<< <<"symbol">>, symbol.v[1], <<"error">>, <<message>> >>)

\* {"symbol": symbol, "cached": True, **cached} without the "cached" key
CachedEntryUntagged(symbol, cached) ==
    PyDict(<< <<"symbol">>, symbol.v[1] >> \o cached.v)

\* {"symbol": symbol, "cached": True, **cached}
CachedEntry(symbol, cached) ==
    PyDict(<< <<"symbol">>, symbol.v[1], <<"cached">>, <<"True">> >> \o cached.v)

\* {"symbol": symbol, **result}
ResultEntry(symbol, result) ==
    PyDict(<< <<"symbol">>, symbol.v[1] >> \o result.v)

\* a call that was not made
NotCalled == [status |-> "-", ret |-> PyNone, code |-> "-"]

\* what the loop body has done for the current symbol: the outcome of the
\* cache lookup, whether fetch returned or raised (without the data), the
\* outcome of the write-back, and the names of the calls in the order they
\* were made
NoCur ==
    [lookup |-> NotCalled, fetched |-> NotCalled, writeback |-> NotCalled,
     calls |-> <<>>]

\* the longest list of symbols in a request
MaxSymbols == 2

\* the symbols of a request: a well-formed one with data, one with no data,
\* one with 3 bars, one whose volume list is short, and a malformed one
GoodSymbol == PyStr(<<"N", "S", "E", ":", "X">>)

NoDataSymbol == PyStr(<<"N", "0">>)

ShortSymbol == PyStr(<<"S", "1">>)

RaggedSymbol == PyStr(<<"R", "2">>)

MalformedSymbol == PyStr(<<"N", ":", "X">>)

ScanSymbols ==
    {GoodSymbol, NoDataSymbol, ShortSymbol, RaggedSymbol, MalformedSymbol}

SymbolLists == UNION {[1..n -> ScanSymbols] : n \in 0..MaxSymbols}

\* closes first, first + step, ... with open = close = low, high = close + 1
\* and volume 1
Trend(n, first, step) ==
    LET closes == [i \in 1..n |-> R(first + step * (i - 1))]
    IN  Ohlcv(closes, [i \in 1..n |-> RAdd(closes[i], R(1))], closes, closes,
              [i \in 1..n |-> R(1)])

\* what yfinance / tvdatafeed return for a symbol
Provider(symbol) ==
    CASE symbol = GoodSymbol -> Trend(10, 1, 1)
      [] symbol = ShortSymbol -> Trend(3, 1, 1)
      [] symbol = RaggedSymbol ->
             LET d == Trend(10, 1, 1)
             IN  Ohlcv(PyDictGet(d, "open"), PyDictGet(d, "high"),
                       PyDictGet(d, "low"), PyDictGet(d, "close"), <<R(1), R(1)>>)
      [] OTHER -> PyNone

\* ------------------------------------------------- the scan, step by step
\* scan.pc is the position of the request handler: "idle" (no request),
\* "lookup" (at line 62 for symbols[i]), "fetch" (at line 82), "compute" (at
\* line 98), "return" (at line 152).  scan.trace[k] is what the loop body did
\* for results[k]; scan.stored is the result of the last write-back that
\* returned, by symbol.
IdleScan ==
    [pc |-> "idle", symbols |-> <<>>, i |-> 0, results |-> <<>>, trace |-> <<>>,
     cur |-> NoCur, data |-> PyNone, stored |-> EmptyDict]

\* results.append(entry) followed by the next iteration, or the end of the loop
Appended(entry, cur) ==
    [scan EXCEPT !.results = Append(@, entry),
                 !.trace = Append(@, cur),
                 !.cur = NoCur,
                 !.data = PyNone,
                 !.i = @ + 1,
                 !.pc = IF scan.i + 1 > Len(scan.symbols) THEN "return"
                        ELSE "lookup"]

\* what a step of the handler does to the cache and leaves alone
ScanStep(newRedis, newStores) ==
    /\ redis' = newRedis
    /\ stores' = newStores
    /\ UNCHANGED <<now, backendUp, last, deadline, arg, res>>
    /\ UNCHANGED dedupVars

\* POST /api/scan arrives with a list of symbols.
ScanStart(symbols) ==
    /\ scan.pc = "idle"
    /\ scan' = [scan EXCEPT !.pc = IF symbols = <<>> THEN "return" ELSE "lookup",
                            !.symbols = symbols,
                            !.i = 1,
                            !.results = <<>>,
                            !.trace = <<>>]
    /\ ScanStep(redis, stores)

\* ScanLookup without the try/except around cache.get: the exception reaches
\* the outer handler and becomes an error entry
ScanLookupUnguarded ==
    LET symbol == scan.symbols[scan.i]
        valid == validate_symbol(symbol)
        got == GetOutcome("cache", ScanKey(symbol))
        calls == <<"validate_symbol", "cache.get">>
    IN  /\ scan.pc = "lookup"
        /\ scan' = IF valid.status = "error"
                   THEN Appended(ErrorEntry(symbol, "invalid symbol"),
                                 [NoCur EXCEPT !.calls = <<"validate_symbol">>])
                   ELSE IF got.status = "error"
                   THEN Appended(ErrorEntry(symbol, got.code),
                                 [NoCur EXCEPT !.lookup = got, !.calls = calls])
                   ELSE IF Truthy(got.ret)
                   THEN Appended(CachedEntry(symbol, got.ret),
                                 [NoCur EXCEPT !.lookup = got, !.calls = calls])
                   ELSE [scan EXCEPT !.pc = "fetch",
                                     !.cur = [NoCur EXCEPT !.lookup = got,
                                                           !.calls = calls]]
        /\ ScanStep(redis, stores)

\* Lines 62-79: validate the symbol, look its result up in the cache.
ScanLookup ==
    LET symbol == scan.symbols[scan.i]
        valid == validate_symbol(symbol)
        got == GetOutcome("cache", ScanKey(symbol))
        cached == IF got.status = "error" THEN PyNone ELSE got.ret
        calls == <<"validate_symbol", "cache.get">>
    IN  /\ scan.pc = "lookup"
        /\ IF valid.status = "error"
           THEN /\ scan' = Appended(ErrorEntry(symbol, "invalid symbol"),
                                    [NoCur EXCEPT !.calls = <<"validate_symbol">>])
                /\ ScanStep(redis, stores)
           ELSE /\ scan' = IF Truthy(cached)
                           THEN Appended(CachedEntry(symbol, cached),
                                         [NoCur EXCEPT !.lookup = got,
                                                       !.calls = calls])
                           ELSE [scan EXCEPT !.pc = "fetch",
                                             !.cur = [NoCur EXCEPT !.lookup = got,
                                                                   !.calls = calls]]
                /\ ScanStep(redis, stores)

\* ScanFetch with "no data" ending the loop: the rest of the list is dropped
ScanFetchStopsOnNoData ==
    LET symbol == scan.symbols[scan.i]
        eff == FetchEffect(symbol, Provider(symbol))
        data == eff.outcome.ret
        closes == PyDictGet(data, "close")
        cur == [scan.cur EXCEPT !.fetched = [eff.outcome EXCEPT !.ret = PyNone],
                                !.calls = Append(@, "fetch")]
    IN  /\ scan.pc = "fetch"
        /\ scan' = IF eff.outcome.status = "error"
                   THEN Appended(ErrorEntry(symbol, eff.outcome.code), cur)
                   ELSE IF ~Truthy(data)
                   THEN [Appended(ErrorEntry(symbol, "no data"), cur)
                            EXCEPT !.pc = "return"]
                   ELSE IF closes = <<>> \/ Len(closes) < 10
                   THEN Appended(ErrorEntry(symbol, "insufficient data"), cur)
                   ELSE [scan EXCEPT !.pc = "compute", !.data = data, !.cur = cur]
        /\ ScanStep(eff.redis, eff.stores)

\* Lines 82-96: fetch the OHLCV data and check that it has 10 closes.
ScanFetch ==
    LET symbol == scan.symbols[scan.i]
        eff == FetchEffect(symbol, Provider(symbol))
        data == eff.outcome.ret
        closes == PyDictGet(data, "close")
        cur == [scan.cur EXCEPT !.fetched = [eff.outcome EXCEPT !.ret = PyNone],
                                !.calls = Append(@, "fetch")]
    IN  /\ scan.pc = "fetch"
        /\ scan' = IF eff.outcome.status = "error"
                   THEN Appended(ErrorEntry(symbol, eff.outcome.code), cur)
                   ELSE IF ~Truthy(data)
                   THEN Appended(ErrorEntry(symbol, "no data"), cur)
                   ELSE IF closes = <<>> \/ Len(closes) < 10
                   THEN Appended(ErrorEntry(symbol, "insufficient data"), cur)
                   ELSE [scan EXCEPT !.pc = "compute", !.data = data, !.cur = cur]
        /\ ScanStep(eff.redis, eff.stores)

\* the names of the calls of lines 99-127, in order
ComputeCalls ==
    <<"rsi", "mfi", "obv", "ema", "ema", "is_uptrend", "detect_bullish_candle",
      "compute_score", "detect_long_signal">>

\* Lines 98-150: compute the result (out), write it to the cache (eff; an
\* exception of cache.set is swallowed) and append it; an exception of the
\* computation becomes an error entry.
ScanCompute ==
    /\ scan.pc = "compute"
    /\ \E symbol \in {scan.symbols[scan.i]}, out \in {ScanResult(scan.data)} :
          IF out.status = "error"
          THEN /\ scan' = Appended(ErrorEntry(symbol, out.code),
                               [scan.cur EXCEPT !.calls = @ \o <<"rsi", "mfi", "obv">>])
               /\ ScanStep(redis, stores)
          ELSE \E eff \in {SetEffect("cache", ScanKey(symbol), out.ret, 1)} :
                  /\ scan' = [Appended(ResultEntry(symbol, out.ret),
                                       [scan.cur EXCEPT
                                           !.writeback = eff.outcome,
                                           !.calls = @ \o ComputeCalls
                                                       \o <<"cache.set">>])
                                 EXCEPT !.stored =
                                     IF eff.outcome.status = "ok"
                                     THEN DictSet(@, symbol.v[1], out.ret) ELSE @]
                  /\ ScanStep(eff.redis, eff.stores)

\* Lines 152-155: the response is sent and the handler's locals are gone.
ScanReturn ==
    /\ scan.pc = "return"
    /\ scan' = [IdleScan EXCEPT !.stored = scan.stored]
    /\ ScanStep(redis, stores)

\* The module-level cache = CacheManager() serves the scan.
InitScan ==
    /\ now = 0
    /\ redis = EmptyDict
    /\ last = NoEvent
    /\ deadline = EmptyDict
    /\ NoWorkers
    /\ NoCall
    /\ scan = IdleScan
    /\ \E credentials \in BOOLEAN, reachable \in BOOLEAN :
          /\ backendUp = reachable
          /\ stores = [s \in {"cache"} |->
                         NewStore(<<"stock-scanner">>, TRUE, credentials, reachable)]

NextScan ==
    \/ \E symbols \in SymbolLists : ScanStart(symbols)
    \/ ScanLookup
    \/ ScanFetch
    \/ ScanCompute
    \/ ScanReturn
    \/ BackendFlip

SpecScan == InitScan /\ [][NextScan]_vars

\* ------------------------------------------------------ claims on the scan
\* the keys of a result entry
HasKey(entry, key) ==
    \E j \in 1..(Len(entry.v) \div 2) : entry.v[2 * j - 1] = key

\* {"symbol": ..., "error": ...}
IsErrorEntry(entry) == HasKey(entry, <<"error">>)

\* score, buy_signal, the eight features and last.close, last.rsi, last.mfi
ResultKeys ==
    {<<"score">>, <<"buy_signal">>}
    \cup {<<"features", key>> : key \in FeatureKeys}
    \cup {<<"last", key>> : key \in {"close", "rsi", "mfi"}}

IsFullResult(entry) == \A key \in ResultKeys : HasKey(entry, key)

\* the entry lines 82-150 append for a symbol when the lookup did not hit,
\* given the outcome of fetch
MissEntry(symbol, fetched) ==
    IF fetched.status = "error" THEN ErrorEntry(symbol, fetched.code)
    ELSE IF ~Truthy(fetched.ret) THEN ErrorEntry(symbol, "no data")
    ELSE IF Len(PyDictGet(fetched.ret, "close")) < 10
    THEN ErrorEntry(symbol, "insufficient data")
    ELSE LET out == ScanResult(fetched.ret)
         IN  IF out.status = "error" THEN ErrorEntry(symbol, out.code)
             ELSE ResultEntry(symbol, out.ret)

\* MissEntry for the data of each symbol that passes validation, tabulated
MissTable ==
    {<<symbol, MissEntry(symbol, Return(Provider(symbol)))>> :
        symbol \in {s \in ScanSymbols : validate_symbol(s).status = "ok"}}

\* the entry a cache miss gives for a valid symbol
MissOf(symbol) == (CHOOSE row \in MissTable : row[1] = symbol)[2]

\* C11: a cache failure on the lookup or on the write-back of a symbol's
\* result never produces an error entry of its own and never aborts the
\* scan: after a failed lookup the handler fetches and the entry is the one a
\* cache miss gives for the fetched data, after a failed write-back the entry
\* is the computed result, and the loop goes on to the next symbol.
C11_CacheFailureIsSoftMiss ==
    /\ \A k \in DOMAIN scan.results :
          LET tr == scan.trace[k]
              symbol == scan.symbols[k]
          IN  /\ tr.lookup.status = "error" =>
                    /\ tr.fetched.status = "ok"
                    /\ scan.results[k] = MissOf(symbol)
              /\ tr.writeback.status = "error" =>
                    /\ IsFullResult(scan.results[k])
                    /\ ~IsErrorEntry(scan.results[k])
                    /\ scan.results[k] = MissOf(symbol)
    /\ scan.cur.lookup.status = "error" => scan.pc \in {"fetch", "compute"}
    /\ scan.pc = "compute" => scan.data = Provider(scan.symbols[scan.i])
    /\ scan.pc = "return" => Len(scan.results) = Len(scan.symbols)

\* a response whose first symbol met a failed lookup and a failed write-back
\* and still got its full result, and whose second symbol was processed
C11_Witness ==
    /\ scan.pc = "return"
    /\ Len(scan.results) = 2
    /\ scan.trace[1].lookup.status = "error"
    /\ scan.trace[1].writeback.status = "error"
    /\ IsFullResult(scan.results[1])

\* the cache keys the handler uses for a symbol
OwnKeys(symbol) ==
    {make_key("cache", ScanKey(symbol)), make_key("cache", OhlcvKey(symbol))}

\* a step of the handler leaves every cache entry under the keys in others as
\* it was, in the backend and in the fallback dict
KeysUntouched(others) ==
    LET before == stores["cache"].fallback_cache.d
        after == stores'["cache"].fallback_cache.d
    IN  /\ \A key \in (DOMAIN redis \cup DOMAIN redis') \cap others :
              /\ key \in DOMAIN redis /\ key \in DOMAIN redis'
              /\ redis'[key] = redis[key]
        /\ \A key \in (DOMAIN before \cup DOMAIN after) \cap others :
              /\ key \in DOMAIN before /\ key \in DOMAIN after
              /\ after[key] = before[key]

\* every key of the cache that is not one of the symbol's
OtherKeys(symbol) ==
    (DOMAIN redis \cup DOMAIN redis'
     \cup DOMAIN stores["cache"].fallback_cache.d
     \cup DOMAIN stores'["cache"].fallback_cache.d) \ OwnKeys(symbol)

\* the entries a symbol can get, whatever else the list holds: the error
\* entry of a symbol that fails validation, else what a miss gives for the
\* symbol's data, or that result served from the cache
EntriesOfSymbol(symbol) ==
    IF validate_symbol(symbol).status = "error"
    THEN {ErrorEntry(symbol, "invalid symbol")}
    ELSE LET miss == MissOf(symbol)
         IN  IF IsErrorEntry(miss) THEN {miss}
             ELSE {miss, CachedEntry(symbol, PyDict(SubSeq(miss.v, 3, Len(miss.v))))}

\* EntriesOfSymbol, tabulated over the symbols of the requests
EntriesTable == {<<symbol, EntriesOfSymbol(symbol)>> : symbol \in ScanSymbols}

EntriesOf(symbol) == (CHOOSE row \in EntriesTable : row[1] = symbol)[2]

\* one entry per symbol handled so far, in input order, each an error entry
\* or a full result and never both, each one of the entries of its symbol
OneEntryPerSymbol ==
    /\ Len(scan.trace) = Len(scan.results)
    /\ scan.pc # "idle" => Len(scan.results) = scan.i - 1
    /\ scan.pc = "return" => Len(scan.results) = Len(scan.symbols)
    /\ \A k \in DOMAIN scan.results :
          LET entry == scan.results[k]
          IN  /\ PyDictGet(entry, "symbol") = scan.symbols[k].v[1]
              /\ IsErrorEntry(entry) # IsFullResult(entry)
              /\ IsErrorEntry(entry) => \A key \in ResultKeys : ~HasKey(entry, key)
              /\ entry \in EntriesOf(scan.symbols[k])

\* C12: the scan returns one entry per input symbol, in input order, each
\* either an error entry or a full result and never both; a symbol that fails
\* (invalid, no data, fewer than 10 closes, an exception of the computation)
\* gets an error entry, and handling a symbol touches no cache entry of any
\* other symbol, so the entries of the others are what they would be without
\* it.
C12_OneEntryPerSymbolFailuresIsolated ==
    [][/\ OneEntryPerSymbol'
       /\ scan.pc \in {"lookup", "fetch", "compute"} =>
              KeysUntouched(OtherKeys(scan.symbols[scan.i]))
       /\ scan.pc \notin {"lookup", "fetch", "compute"} =>
              (redis' = redis /\ stores' = stores)]_vars

\* a response to [ragged, good]: the first entry is the error of the
\* computation, the second the full result
C12_Witness ==
    /\ scan.pc = "return"
    /\ scan.symbols = <<RaggedSymbol, GoodSymbol>>
    /\ scan.results[1] = ErrorEntry(RaggedSymbol, "IndexError")
    /\ IsFullResult(scan.results[2])
    /\ ~IsErrorEntry(scan.results[2])

\* the value an entry holds under a key it has
EntryValue(entry, key) ==
    entry.v[2 * (CHOOSE j \in 1..(Len(entry.v) \div 2) : entry.v[2 * j - 1] = key)]

\* the result the first scan of a symbol wrote is in the cache the manager
\* reads: in the backend in remote mode, in the fallback dict in in-memory mode
ResultInCache(symbol) ==
    LET st == stores["cache"]
        full_key == make_key("cache", ScanKey(symbol))
    IN  /\ symbol.v[1] \in DOMAIN scan.stored
        /\ IF st.redis_client THEN full_key \in DOMAIN redis
           ELSE /\ ~st.fallback_cache.isNone
                /\ full_key \in DOMAIN st.fallback_cache.d

\* the handler's step for the symbol appended an entry with the values the
\* first scan computed, tagged cached: True, having called validate_symbol
\* and cache.get and nothing else
ServedFromCache(symbol) ==
    LET first == scan.stored[symbol.v[1]]
        entry == scan'.results[Len(scan'.results)]
    IN  /\ Len(scan'.results) = Len(scan.results) + 1
        /\ PyDictGet(entry, "symbol") = symbol.v[1]
        /\ HasKey(entry, <<"cached">>)
        /\ PyDictGet(entry, "cached") = <<"True">>
        /\ \A key \in ResultKeys :
              /\ HasKey(entry, key)
              /\ EntryValue(entry, key) = EntryValue(first, key)
        /\ scan'.trace[Len(scan'.trace)].calls = <<"validate_symbol", "cache.get">>
        /\ scan'.trace[Len(scan'.trace)].fetched.status = "-"

\* the handler is about to look up a valid symbol
AtLookupOf(symbol) ==
    /\ scan.pc = "lookup"
    /\ scan' # scan
    /\ symbol = scan.symbols[scan.i]
    /\ validate_symbol(symbol).status = "ok"

CallIndex(calls, name) ==
    IF \E j \in DOMAIN calls : calls[j] = name
    THEN CHOOSE j \in DOMAIN calls :
             calls[j] = name /\ \A h \in 1..(j - 1) : calls[h] # name
    ELSE 0

\* C14: for each symbol whose result is computed, SignalDeduplicator.is_duplicate
\* is called after compute_score and detect_long_signal, mark_processed is
\* called only after that check, and cache.set of the scan result comes after
\* the check and the mark.
C14_DedupCheckBeforeWriteThrough ==
    \A k \in DOMAIN scan.trace :
        LET calls == scan.trace[k].calls
            decided == CallIndex(calls, "detect_long_signal")
            checked == CallIndex(calls, "is_duplicate")
            marked_at == CallIndex(calls, "mark_processed")
            written == CallIndex(calls, "cache.set")
        IN  decided > 0 =>
                /\ CallIndex(calls, "compute_score") < checked
                /\ decided < checked
                /\ marked_at > 0 => checked < marked_at
                /\ written > 0 => checked < written /\ marked_at < written

\* ------------------------------------ the indicator functions, called once
\* The longest input series.
MaxBars == 4
\* The largest period passed.
MaxPeriod == 3

\* The bars an input series is made of: positive prices with low <= open,
\* close <= high, and a volume >= 0.
Bars ==
    {[o |-> 1, h |-> 2, l |-> 1, c |-> 2, v |-> 1],
     [o |-> 3, h |-> 4, l |-> 1, c |-> 1, v |-> 2],
     [o |-> 1, h |-> 1, l |-> 1, c |-> 1, v |-> 0]}

BarSeries == UNION {[1..n -> Bars] : n \in 0..MaxBars}

\* periods below, at and above zero
PeriodInputs == (0 - 1)..MaxPeriod

Opens(bars) == [i \in 1..Len(bars) |-> R(bars[i].o)]

Highs(bars) == [i \in 1..Len(bars) |-> R(bars[i].h)]

Lows(bars) == [i \in 1..Len(bars) |-> R(bars[i].l)]

Closes(bars) == [i \in 1..Len(bars) |-> R(bars[i].c)]

Volumes(bars) == [i \in 1..Len(bars) |-> R(bars[i].v)]

InitInd ==
    /\ NoCacheInUse
    /\ NoWorkers
    /\ NoScan
    /\ arg \in [bars : BarSeries, period : PeriodInputs]
    /\ res = <<>>

\* a call of fn with the period parameters `periods` and the other
\* parameters `extra` returned or raised `out`
Called(fn, periods, extra, out) ==
    /\ res = <<>>
    /\ res' = [fn |-> fn, periods |-> periods, extra |-> extra, out |-> out]
    /\ UNCHANGED <<now, backendUp, redis, stores, last, deadline, arg, scan>>
    /\ UNCHANGED dedupVars

CallSma ==
    Called("sma", <<arg.period>>, <<>>, sma(Closes(arg.bars), arg.period))

CallEma ==
    Called("ema", <<arg.period>>, <<>>, ema(Closes(arg.bars), arg.period))

CallRsi ==
    Called("rsi", <<arg.period>>, <<>>, rsi(Closes(arg.bars), arg.period))

CallMfi ==
    Called("mfi", <<arg.period>>, <<>>,
           mfi(Highs(arg.bars), Lows(arg.bars), Closes(arg.bars),
               Volumes(arg.bars), arg.period))

CallObv ==
    Called("obv", <<>>, <<>>, obv(Closes(arg.bars), Volumes(arg.bars)))

CallVwap ==
    Called("vwap", <<>>, <<>>,
           vwap(Highs(arg.bars), Lows(arg.bars), Closes(arg.bars),
                Volumes(arg.bars)))

CallAdLine ==
    Called("ad_line", <<>>, <<>>,
           ad_line(Highs(arg.bars), Lows(arg.bars), Closes(arg.bars),
                   Volumes(arg.bars)))

CallMacd(slow, signal) ==
    Called("macd", <<arg.period, slow, signal>>, <<>>,
           macd(Closes(arg.bars), arg.period, slow, signal))

CallAtr ==
    Called("atr", <<arg.period>>, <<>>,
           atr(Highs(arg.bars), Lows(arg.bars), Closes(arg.bars), arg.period))

CallBollingerBands ==
    Called("bollinger_bands", <<arg.period>>, <<>>,
           bollinger_bands(Closes(arg.bars), arg.period, R(2)))

CallIsUptrend(lookback) ==
    Called("is_uptrend", <<arg.period>>, <<lookback>>,
           is_uptrend(Closes(arg.bars), arg.period, lookback))

NextInd ==
    \/ CallSma
    \/ CallEma
    \/ CallRsi
    \/ CallMfi
    \/ CallObv
    \/ CallVwap
    \/ CallAdLine
    \/ \E slow \in PeriodInputs, signal \in PeriodInputs : CallMacd(slow, signal)
    \/ CallAtr
    \/ CallBollingerBands
    \/ \E lookback \in 0..1 : CallIsUptrend(lookback)

SpecInd == InitInd /\ [][NextInd]_vars

\* ------------------------------------------------ claims, the indicators
\* the functions that return series
SeriesFns ==
    {"sma", "ema", "rsi", "mfi", "obv", "vwap", "ad_line", "atr", "macd",
     "bollinger_bands"}

\* the series a call returned
SeriesOf(call) ==
    CASE call.fn = "macd" ->
             {call.out.ret.macd, call.out.ret.signal, call.out.ret.histogram}
      [] call.fn = "bollinger_bands" ->
             {call.out.ret.upper, call.out.ret.middle, call.out.ret.lower}
      [] OTHER -> {call.out.ret}

\* C17: for parallel input series of equal length n (n = 0 and n below the
\* period included) and periods >= 1, sma, ema, rsi, mfi, obv, vwap, ad_line,
\* atr, macd and bollinger_bands return, and every series they return has
\* length exactly n.
C17_SeriesKeepLength ==
    (res # <<>> /\ res.fn \in SeriesFns
        /\ \A i \in DOMAIN res.periods : res.periods[i] >= 1)
        => /\ res.out.status = "ok"
           /\ \A series \in SeriesOf(res) : Len(series) = Len(arg.bars)

\* C17 witness: rsi returned a series that starts undefined and ends defined.
C17_Witness ==
    /\ res # <<>>
    /\ res.fn = "rsi"
    /\ res.out.status = "ok"
    /\ Len(arg.bars) = arg.period + 2
    /\ res.out.ret[1] = None
    /\ res.out.ret[Len(arg.bars)] # None

\* C18: sma, ema, rsi, mfi, atr, bollinger_bands, is_uptrend and macd raise
\* the invalid-parameter error (ValueError) whenever one of their period
\* parameters is <= 0, for every input series.
C18_NonPositivePeriodRejected ==
    (res # <<>> /\ \E i \in DOMAIN res.periods : res.periods[i] <= 0)
        => res.out = Raise("ValueError")

\* the <<avg_gain, avg_loss>> pair behind the value rsi returned at position i
RsiAverageAt(i) == rsi_averages(Closes(arg.bars), res.periods[1])[i - res.periods[1]]

\* the negative money flow behind the value mfi returned at position i
MfiNegativeFlowAt(i) ==
    LET tps == typical_prices(Highs(arg.bars), Lows(arg.bars), Closes(arg.bars))
    IN  negative_flow(tps, money_flows(tps, Volumes(arg.bars)), i - 1,
                      res.periods[1])

DefinedValues(series) == SelectSeq(series, LAMBDA x : x # None)

\* how many values of the series are defined at positions 1..i
DefinedUpTo(series, i) == Cardinality({j \in 1..i : series[j] # None})

\* C22: for macd(prices, fast, slow, signal) with periods >= 1, macd_line[i]
\* is defined exactly where both emas are defined and equals ema_fast[i] -
\* ema_slow[i]; the signal line is the ema of period `signal` of the defined
\* values of macd_line, placed back at their original indices; histogram[i]
\* is defined exactly where macd_line[i] and signal_line[i] both are and
\* equals macd_line[i] - signal_line[i] there.
C22_MacdLines ==
    (res # <<>> /\ res.fn = "macd"
        /\ \A k \in DOMAIN res.periods : res.periods[k] >= 1) =>
        LET prices == Closes(arg.bars)
            ema_fast == ema(prices, res.periods[1]).ret
            ema_slow == ema(prices, res.periods[2]).ret
            macd_line == res.out.ret.macd
            signal_line == res.out.ret.signal
            histogram == res.out.ret.histogram
            signal_ema == ema(DefinedValues(macd_line), res.periods[3]).ret
        IN  /\ res.out.status = "ok"
            /\ DOMAIN macd_line = DOMAIN prices
            /\ DOMAIN signal_line = DOMAIN prices
            /\ DOMAIN histogram = DOMAIN prices
            /\ \A i \in DOMAIN prices :
                  /\ macd_line[i] # None <=> (ema_fast[i] # None /\ ema_slow[i] # None)
                  /\ macd_line[i] # None
                        => macd_line[i] = RSub(ema_fast[i], ema_slow[i])
                  /\ signal_line[i] =
                        IF macd_line[i] = None THEN None
                        ELSE signal_ema[DefinedUpTo(macd_line, i)]
                  /\ histogram[i] # None
                        <=> (macd_line[i] # None /\ signal_line[i] # None)
                  /\ histogram[i] # None
                        => histogram[i] = RSub(macd_line[i], signal_line[i])

\* C22 witness: macd returned a line that is undefined at first, a signal
\* line that starts later than it, and a histogram value other than 0.
C22_Witness ==
    /\ res # <<>>
    /\ res.fn = "macd"
    /\ res.out.status = "ok"
    /\ res.periods[1] # res.periods[2]
    /\ \E i \in DOMAIN res.out.ret.macd, j \in DOMAIN res.out.ret.macd :
          /\ res.out.ret.macd[1] = None
          /\ res.out.ret.macd[i] # None
          /\ res.out.ret.signal[i] = None
          /\ res.out.ret.histogram[j] # None
          /\ res.out.ret.histogram[j] # R(0)

\* C23: for every series and period >= 1, ema is undefined at every index
\* < period - 1, equals the simple average of the first `period` values at
\* index period - 1, and at every later index i equals
\* price[i] * k + ema[i - 1] * (1 - k) with k = 2 / (period + 1);
\* ema([10, 11, 12, 13, 14, 15], 3) is [None, None, 11, 12, 13, 14].
C23_EmaSeedAndSmoothing ==
    /\ (res # <<>> /\ res.fn = "ema" /\ res.periods[1] >= 1) =>
          LET prices == Closes(arg.bars)
              period == res.periods[1]
              k == Rat(2, period + 1)
              out == res.out.ret
          IN  /\ res.out.status = "ok"
              /\ DOMAIN out = DOMAIN prices
              /\ \A pos \in DOMAIN prices :
                    out[pos] =
                        IF pos < period THEN None
                        ELSE IF pos = period
                        THEN RDiv(RSum(SubSeq(prices, 1, period)), R(period))
                        ELSE RAdd(RMul(prices[pos], k),
                                  RMul(out[pos - 1], RSub(R(1), k)))
    /\ ema(<<R(10), R(11), R(12), R(13), R(14), R(15)>>, 3)
          = Return(<<None, None, R(11), R(12), R(13), R(14)>>)

\* C23 witness: ema returned a series with undefined entries, the seed and a
\* smoothed value that differs from the seed.
C23_Witness ==
    /\ res # <<>>
    /\ res.fn = "ema"
    /\ res.out.status = "ok"
    /\ res.periods[1] = 2
    /\ Len(res.out.ret) = 4
    /\ res.out.ret[1] = None
    /\ res.out.ret[2] # None
    /\ res.out.ret[4] # res.out.ret[2]
    /\ res.out.ret[4] # Closes(arg.bars)[4]

\* C24: rsi(prices, period) with period >= 1 is undefined at exactly the
\* first `period` positions and defined at every later one when the series
\* has at least period + 1 bars; with fewer bars the whole series is
\* undefined; 5 bars with period 14 give 5 undefined entries.
C24_RsiUndefinedPrefix ==
    /\ (res # <<>> /\ res.fn = "rsi" /\ res.periods[1] >= 1) =>
          LET n == Len(arg.bars)
              period == res.periods[1]
          IN  /\ res.out.status = "ok"
              /\ DOMAIN res.out.ret = 1..n
              /\ \A pos \in 1..n :
                    res.out.ret[pos] = None <=> (n < period + 1 \/ pos <= period)
    /\ rsi(<<R(10), R(10), R(10), R(10), R(10)>>, 14)
          = Return(<<None, None, None, None, None>>)

\* C24 witness: rsi returned for a series of exactly period + 1 bars, with its
\* one defined value at the end.
C24_Witness ==
    /\ res # <<>>
    /\ res.fn = "rsi"
    /\ res.out.status = "ok"
    /\ res.periods[1] >= 2
    /\ Len(arg.bars) = res.periods[1] + 1
    /\ res.out.ret[res.periods[1]] = None
    /\ res.out.ret[res.periods[1] + 1] # None

\* what C25 states of the list atr returned for n bars and a period >= 1
AtrAsStated(out, n, period) ==
    LET tr(pos) == TrueRange(Highs(arg.bars), Lows(arg.bars), Closes(arg.bars),
                             pos - 1)
    IN  /\ DOMAIN out = 1..n
        /\ \A pos \in 1..n :
              out[pos] =
                  IF n < period \/ pos < period THEN None
                  ELSE IF pos = period
                  THEN RDiv(RSum([x \in 1..period |-> tr(x)]), R(period))
                  ELSE RDiv(RAdd(RMul(out[pos - 1], R(period - 1)), tr(pos)),
                            R(period))

\* C25: atr(high, low, close, period) with period >= 1 returns an
\* all-undefined series if the series is shorter than `period`; otherwise,
\* for every length >= period including length 1 with period 1, it is
\* undefined below index period - 1, the mean of the first `period` true
\* ranges at index period - 1, and (atr * (period - 1) + tr[i]) / period at
\* every later index.
C25_AtrSeedAndSmoothing ==
    (res # <<>> /\ res.fn = "atr" /\ res.periods[1] >= 1) =>
        /\ res.out.status = "ok"
        /\ AtrAsStated(res.out.ret, Len(arg.bars), res.periods[1])

\* the call of the indicator fn on the bars with the period parameters
IndicatorOf(fn, bars, periods) ==
    CASE fn = "sma" -> sma(Closes(bars), periods[1])
      [] fn = "ema" -> ema(Closes(bars), periods[1])
      [] fn = "rsi" -> rsi(Closes(bars), periods[1])
      [] fn = "mfi" -> mfi(Highs(bars), Lows(bars), Closes(bars), Volumes(bars),
                           periods[1])
      [] fn = "obv" -> obv(Closes(bars), Volumes(bars))
      [] fn = "vwap" -> vwap(Highs(bars), Lows(bars), Closes(bars), Volumes(bars))
      [] fn = "ad_line" -> ad_line(Highs(bars), Lows(bars), Closes(bars),
                                   Volumes(bars))
      [] fn = "atr" -> atr(Highs(bars), Lows(bars), Closes(bars), periods[1])
      [] fn = "macd" -> macd(Closes(bars), periods[1], periods[2], periods[3])
      [] OTHER -> bollinger_bands(Closes(bars), periods[1], R(2))

\* the series a call of fn returned, in a fixed order
LinesOf(fn, ret) ==
    CASE fn = "macd" -> <<ret.macd, ret.signal, ret.histogram>>
      [] fn = "bollinger_bands" -> <<ret.upper, ret.middle, ret.lower>>
      [] OTHER -> <<ret>>

\* the output of fn at position i is the same for every input series of the
\* same length that agrees with the bars on positions 1..i
CausalAt(fn, bars, periods, lines) ==
    \A other \in [1..Len(bars) -> Bars] :
        LET lines2 == LinesOf(fn, IndicatorOf(fn, other, periods).ret)
        IN  \A i \in 1..Len(bars) :
                (\A j \in 1..i : other[j] = bars[j])
                    => \A k \in DOMAIN lines : lines2[k][i] = lines[k][i]

\* C27: every indicator series is causal: for sma, ema, rsi, mfi, obv, vwap,
\* ad_line, atr, macd and bollinger_bands (periods >= 1), two input series of
\* equal length that agree on bars 0..i produce the same output at index i.
C27_IndicatorsAreCausal ==
    (res # <<>> /\ res.fn \in SeriesFns /\ res.out.status = "ok"
        /\ \A k \in DOMAIN res.periods : res.periods[k] >= 1)
        => CausalAt(res.fn, arg.bars, res.periods, LinesOf(res.fn, res.out.ret))

\* ------------------------------- the result of one symbol, computed once
\* scan computes a result for data with at least this many closes
MinScanBars == 10
\* The longest series of the bent inputs.
MaxScanBars == 16
\* the period of the slow EMA of the scan
EmaSlowPeriod == 26
\* a series long enough for the slow EMA to have values after its seed
LongBars == 27

\* n bars whose closes start at first, move by `before` a bar up to bar
\* `turn` and by `after` a bar from there on; a bar opens at the close before
\* it, its high and low lie 1 beyond its open and close, its volume is 1
Bend(n, first, before, turn, after) ==
    LET closes == [i \in 1..n |->
                      R(first + before * ((IF i < turn THEN i ELSE turn) - 1)
                              + after * (IF i < turn THEN 0 ELSE i - turn))]
        opens == [i \in 1..n |-> IF i = 1 THEN closes[1] ELSE closes[i - 1]]
    IN  Ohlcv(opens,
              [i \in 1..n |-> RAdd(RMax(opens[i], closes[i]), R(1))],
              [i \in 1..n |-> RSub(RMin(opens[i], closes[i]), R(1))],
              closes,
              [i \in 1..n |-> R(1)])

\* OHLCV data that passes the checks of lines 83-96: parallel lists of at
\* least 10 positive prices; the series of 25 bars and more are flat up to
\* the turn
ScanData ==
    {Bend(n, 20, before, n - back, after) :
        n \in MinScanBars..MaxScanBars, before \in (0 - 1)..1,
        back \in {1, 3}, after \in (0 - 1)..1}
    \cup {Bend(n, 20, 0, n - back, after) :
             n \in (EmaSlowPeriod - 1)..LongBars,
             back \in {1, 3}, after \in (0 - 1)..1}

InitResult ==
    /\ NoCacheInUse
    /\ NoWorkers
    /\ NoScan
    /\ arg \in {[data |-> data] : data \in ScanData}
    /\ res = <<>>

\* lines 98-138 run for the data of one symbol
CallScanResult ==
    Called("scan", <<>>, <<>>, ScanResult(arg.data))

NextResult == CallScanResult

SpecResult == InitResult /\ [][NextResult]_vars

\* ------------------------------------------- claims, the result of a symbol
\* the result holds True under features[key]
FlagSet(result, key) == EntryValue(result, <<"features", key>>) = <<"True">>

\* no value of the series is defined
AllUndefined(series) == \A i \in DOMAIN series : series[i] = None

\* C21: when an indicator has no defined value for the series (rsi and mfi
\* for 10 to 14 bars, EMA-26 for fewer than 26 bars, is_uptrend for fewer
\* than 60 bars), the computation gives a full result with all 8 feature
\* flags, no error, in which the dependent flag (rsi_bullish, mfi_bullish,
\* ema_trend, htf_uptrend) is false.
C21_UndefinedIndicatorGivesFalseFlag ==
    res # <<>> =>
        LET highs == PyDictGet(arg.data, "high")
            lows == PyDictGet(arg.data, "low")
            closes == PyDictGet(arg.data, "close")
            volumes == PyDictGet(arg.data, "volume")
            n == Len(closes)
        IN  /\ res.out.status = "ok"
            /\ IsFullResult(res.out.ret)
            /\ ~IsErrorEntry(res.out.ret)
            /\ n \in 10..14 => /\ AllUndefined(rsi(closes, 14).ret)
                               /\ AllUndefined(mfi(highs, lows, closes, volumes, 14).ret)
            /\ n < 26 => AllUndefined(ema(closes, 26).ret)
            /\ AllUndefined(rsi(closes, 14).ret)
                  => /\ ~FlagSet(res.out.ret, "rsi_bullish")
                     /\ EntryValue(res.out.ret, <<"last", "rsi">>) = <<>>
            /\ AllUndefined(mfi(highs, lows, closes, volumes, 14).ret)
                  => /\ ~FlagSet(res.out.ret, "mfi_bullish")
                     /\ EntryValue(res.out.ret, <<"last", "mfi">>) = <<>>
            /\ AllUndefined(ema(closes, 26).ret) => ~FlagSet(res.out.ret, "ema_trend")
            /\ n < 60 => ~FlagSet(res.out.ret, "htf_uptrend")

\* C21 witness: a result for 14 bars, where rsi, mfi, EMA-26 and is_uptrend
\* have no value, in which other flags are true.
C21_Witness ==
    /\ res # <<>>
    /\ res.out.status = "ok"
    /\ Len(PyDictGet(arg.data, "close")) = 14
    /\ ~FlagSet(res.out.ret, "rsi_bullish")
    /\ ~FlagSet(res.out.ret, "ema_trend")
    /\ FlagSet(res.out.ret, "obv_bullish")
    /\ FlagSet(res.out.ret, "not_falling")

\* C30: a computed scan result never reports buy_signal true for a price
\* series with fewer than 26 closes: EMA-26 has no defined value, ema_trend
\* is false and buy_signal is false whatever the other seven flags and the
\* score are.
C30_NoBuySignalBelow26Closes ==
    (res # <<>> /\ Len(PyDictGet(arg.data, "close")) < 26) =>
        /\ res.out.status = "ok"
        /\ ~FlagSet(res.out.ret, "ema_trend")
        /\ EntryValue(res.out.ret, <<"buy_signal">>) = <<"False">>

\* C30 witness: a result for fewer than 26 closes with the flags obv_bullish,
\* rsi_bullish, mfi_bullish and not_falling true, a score of 9 or more, and
\* no buy signal.
C30_Witness ==
    /\ res # <<>>
    /\ res.out.status = "ok"
    /\ Len(PyDictGet(arg.data, "close")) < 26
    /\ FlagSet(res.out.ret, "obv_bullish")
    /\ FlagSet(res.out.ret, "rsi_bullish")
    /\ FlagSet(res.out.ret, "mfi_bullish")
    /\ FlagSet(res.out.ret, "not_falling")
    /\ EntryValue(res.out.ret, <<"score">>) \in {<<"9">>, <<"10">>, <<"11">>}
    /\ EntryValue(res.out.ret, <<"buy_signal">>) = <<"False">>

\* ---------------------------------------------- validate_entry, called once
\* the prices passed: no number, below, at and above the limits, nan and inf
PriceInputs ==
    {NotNumber("NoneType"), NotNumber("str"), PyNumber("bool", R(1)),
     PyNumber("int", R(0 - 1)), PyNumber("int", R(0)),
     PyNumber("float", Rat(1, 200)), PyNumber("float", Rat(1, 100)),
     PyNumber("int", R(1)), PyNumber("float", Rat(3, 2)), PyNumber("int", R(2)),
     PyNumber("int", R(1000000)), PyNumber("float", Rat(2000001, 2)),
     PyNaN, PyInf}

InitEntry ==
    /\ NoCacheInUse
    /\ NoWorkers
    /\ NoScan
    /\ arg \in [entry_price : PriceInputs, stop_loss : PriceInputs,
                take_profit : PriceInputs]
    /\ res = <<>>

CallValidateEntry ==
    Called("validate_entry", <<>>, <<>>,
           validate_entry(arg.entry_price, arg.stop_loss, arg.take_profit))

NextEntry == CallValidateEntry

SpecEntry == InitEntry /\ [][NextEntry]_vars

\* ------------------------------------------------- claims, validate_entry
\* the Signal invariant: stop_loss < entry_price < take_profit, all three > 0
SignalInvariant(entry_price, stop_loss, take_profit) ==
    LET number(x) == x.kind = "inf" \/ (x.kind = "finite" /\ x.t # "str")
        less(x, y) == /\ x.kind # "inf"
                      /\ (y.kind = "inf" \/ RLt(x.q, y.q))
        zero == PyNumber("int", R(0))
    IN  /\ number(entry_price) /\ number(stop_loss) /\ number(take_profit)
        /\ less(stop_loss, entry_price)
        /\ less(entry_price, take_profit)
        /\ less(zero, stop_loss)

\* C26: validate_entry(entry_price, stop_loss, take_profit) succeeds only
\* when stop_loss < entry_price < take_profit and all three prices are > 0,
\* and reports a ValidationError for every other combination.
C26_ValidEntrySatisfiesSignalInvariant ==
    res # <<>> =>
        /\ res.out.status = "ok"
              => SignalInvariant(arg.entry_price, arg.stop_loss, arg.take_profit)
        /\ ~SignalInvariant(arg.entry_price, arg.stop_loss, arg.take_profit)
              => res.out = Raise("ValidationError")

\* ------------------------------------------- the caller's objects and the cache
\* A caller holds mutable objects (lists) and passes them to cache.set.
\* arg.heap is the value of each object now; arg.entry is, for each key of the
\* in-memory dict, the object the dict holds under it (self.fallback_cache[
\* full_key] = value stores the object itself, and get returns that object);
\* arg.got is the object the last get returned.  res is, by key, the value the
\* object had when set was called.
\* The most items a list is grown to.
MaxItems == 3

\* two objects the caller creates, and the one json.loads builds for a get
CallerObjects == {"o1", "o2"}

LoadedObject == "loaded"

InMemoryMode(s) == ~stores[s].redis_client /\ ~stores[s].fallback_cache.isNone

InitAlias ==
    /\ now = 0
    /\ redis = EmptyDict
    /\ last = NoEvent
    /\ deadline = EmptyDict
    /\ NoWorkers
    /\ NoScan
    /\ arg = [heap |-> [o \in CallerObjects \cup {LoadedObject} |->
                          IF o = LoadedObject THEN PyNone
                          ELSE PyList(<< <<o>> >>)],
              entry |-> EmptyDict,
              got |-> "-"]
    /\ res = EmptyDict
    /\ \E credentials \in BOOLEAN, reachable \in BOOLEAN :
          /\ backendUp = reachable
          /\ stores = [s \in {"cache"} |->
                         NewStore(<<"stock-scanner">>, TRUE, credentials, reachable)]

\* what a step of the caller changes
AliasStep(event, newRedis, newStores, newArg, newRes) ==
    /\ redis' = newRedis
    /\ stores' = newStores
    /\ last' = event
    /\ arg' = newArg
    /\ res' = newRes
    /\ UNCHANGED <<now, backendUp, deadline, scan>>
    /\ UNCHANGED dedupVars

\* cache.set(key, obj, ttl_hours=1) for one of the caller's objects
CallerSet(key, o) ==
    \E eff \in {SetEffect("cache", key, arg.heap[o], 1)} :
        AliasStep(Event("set", "cache", key, arg.heap[o], 1, eff.outcome),
                  eff.redis, eff.stores,
                  IF eff.outcome.status = "ok" /\ InMemoryMode("cache")
                  THEN [arg EXCEPT !.entry = DictSet(@, make_key("cache", key), o)]
                  ELSE arg,
                  IF eff.outcome.status = "ok"
                  THEN DictSet(res, key, arg.heap[o]) ELSE res)

\* obj = cache.get(key): the object of the dict in in-memory mode, a new
\* object built by json.loads in remote mode
CallerGet(key) ==
    \E out \in {GetOutcome("cache", key)} :
        AliasStep(Event("get", "cache", key, PyNone, 0, out), redis, stores,
                  IF out.status = "error" \/ out.ret = PyNone
                  THEN [arg EXCEPT !.got = "-"]
                  ELSE IF InMemoryMode("cache")
                  THEN [arg EXCEPT !.got = arg.entry[make_key("cache", key)]]
                  ELSE [arg EXCEPT !.got = LoadedObject,
                                   !.heap[LoadedObject] = out.ret],
                  res)

\* obj.append("x") on an object the caller holds; the dict entries that are
\* this object show the change
CallerMutate(o) ==
    /\ arg.heap[o].t = "list"
    /\ Len(arg.heap[o].v) < MaxItems
    /\ \E mutated \in {PyList(Append(arg.heap[o].v, <<"x">>))} :
          AliasStep(Event("mutate", "-", <<o>>, mutated, 0, Return(PyNone)),
                    redis,
                    [stores EXCEPT !["cache"].fallback_cache.d =
                        [k \in DOMAIN @ |->
                            IF arg.entry[k] = o THEN mutated ELSE @[k]]],
                    [arg EXCEPT !.heap[o] = mutated],
                    res)

\* the backend stops answering, or answers again
AliasBackendFlip ==
    /\ backendUp' = ~backendUp
    /\ last' = Event(IF backendUp THEN "backend_down" ELSE "backend_up",
                     "-", <<>>, PyNone, 0, Return(PyNone))
    /\ UNCHANGED <<now, redis, stores, deadline, arg, res, scan>>
    /\ UNCHANGED dedupVars

NextAlias ==
    \/ \E k \in Keys, o \in CallerObjects : CallerSet(k, o)
    \/ \E k \in Keys : CallerGet(k)
    \/ \E o \in CallerObjects \cup {LoadedObject} : CallerMutate(o)
    \/ AliasBackendFlip

SpecAlias == InitAlias /\ [][NextAlias]_vars

\* ---------------------------------------------------- claims, the snapshot
\* C29: a cached entry is a snapshot of the value at the time of set: in
\* in-memory fallback mode as in remote mode, whatever the caller does to the
\* object it passed to set or to an object an earlier get returned, a get
\* that finds the key returns the value as it was when set was called.
C29_EntryIsSnapshot ==
    (last.op = "get" /\ last.status = "ok" /\ last.ret # PyNone)
        => /\ last.key \in DOMAIN res
           /\ last.ret = res[last.key]

====
